---- MODULE Spec2Model ----
(***************************************************************************)
(* ai-writing-helper: the rule-based detector (AIDetector) and rewriter    *)
(* (AIHumanizer) for Chinese text.                                         *)
(*                                                                         *)
(* A text is a sequence of characters.  TLC strings are ASCII, so every    *)
(* character is written as a short ASCII name: a CJK character by its      *)
(* pinyin (a digit or letter is added where two characters would collide), *)
(* full-width punctuation with the prefix "fw" ("fw." is the full stop     *)
(* U+3002, "fw," the comma U+FF0C, "fw!" U+FF01, "fw?" U+FF1F), "LF" the   *)
(* newline, "SP" the space.  The comment beside a literal gives the        *)
(* original characters.                                                    *)
(*                                                                         *)
(* Numbers: Python computes the scores in floating point.  The model       *)
(* computes them exactly, as integers in fixed units: a dimension score,   *)
(* the total score and every ratio in hundredths (score 8000 is 80.00),    *)
(* the unrounded weighted total in units of 1/10000, and the confidence    *)
(* (total / 100) in units of 1/1000000.                                    *)
(***************************************************************************)
EXTENDS Integers, Sequences, FiniteSets, TLC

VARIABLES
  pc,         \* position of the current call: "call", "stage", "done", "raised"
  op,         \* the operation under way: "detect", "humanize", "batch_humanize"
  text,       \* the text argument of detect / humanize (of the current batch item)
  intensity,  \* the intensity argument of humanize / batch_humanize
  work,       \* humanize: the working text (the local variable text)
  changes,    \* humanize: the change log built so far
  todo,       \* humanize: the stages of the chosen tier still to run
  ran,        \* humanize: the stages that have run in this call, in order
  rngDraws,   \* number of calls made to the shared random module so far
  result,     \* the value returned by detect / humanize, NoResult before
  texts,      \* batch_humanize: the texts argument
  results,    \* batch_humanize: the list results
  args,       \* the argument of generate_report / _generate_summary
  shared,     \* the module-level rule tables and the attributes set by __init__
  calls       \* interleaved invocations: the locals of each, by invocation

vars == <<pc, op, text, intensity, work, changes, todo, ran, rngDraws, result,
          texts, results, args, shared, calls>>

NoResult == [none |-> TRUE]

-----------------------------------------------------------------------------
(* Python str / list primitives used by the code.                          *)

Min(a, b) == IF a <= b THEN a ELSE b
\* mutant: no floor, the second argument is returned as it is
Max_unfloored(a, b) == b

Max(a, b) == IF a >= b THEN a ELSE b

\* x in lst, for a Python list lst
InList(x, lst) == \E i \in DOMAIN lst : lst[i] = x

\* lst[:n]
Prefix(lst, n) == SubSeq(lst, 1, Min(n, Len(lst)))

\* characters str.strip() removes
Whitespace == {"SP", "LF", "TAB"}

\* not text or len(text.strip()) == 0
IsBlank(s) == \A i \in DOMAIN s : s[i] \in Whitespace

\* s.strip()
Strip(s) ==
  IF IsBlank(s) THEN <<>>
  ELSE LET keep == {i \in DOMAIN s : s[i] \notin Whitespace}
           lo == CHOOSE i \in keep : \A j \in keep : i <= j
           hi == CHOOSE i \in keep : \A j \in keep : j <= i
       IN SubSeq(s, lo, hi)

\* s[pos : pos + len(w)] == w   (pos is 1-based)
HasAt(s, w, pos) ==
  /\ pos >= 1
  /\ pos + Len(w) - 1 <= Len(s)
  /\ \A k \in 1..Len(w) : s[pos + k - 1] = w[k]

\* w in s, for strings
Contains(s, w) == \E pos \in 1..(Len(s) - Len(w) + 1) : HasAt(s, w, pos)

\* 1-based index of the first occurrence of w in s (s.find(w) + 1); 0 when absent
Find(s, w) ==
  IF Contains(s, w)
  THEN CHOOSE pos \in 1..(Len(s) - Len(w) + 1) :
         /\ HasAt(s, w, pos)
         /\ \A q \in 1..(pos - 1) : ~HasAt(s, w, q)
  ELSE 0

\* mutant: every occurrence is replaced (the count argument is left out)
RECURSIVE ReplaceFirst_all(_, _, _)
ReplaceFirst_all(s, w, r) ==
  LET p == Find(s, w)
  IN IF p = 0 \/ w = <<>> THEN s
     ELSE SubSeq(s, 1, p - 1) \o r \o ReplaceFirst_all(SubSeq(s, p + Len(w), Len(s)), w, r)

\* mutant: the last occurrence is replaced instead of the first
ReplaceFirst_last(s, w, r) ==
  LET ps == {pos \in 1..(Len(s) - Len(w) + 1) : HasAt(s, w, pos)}
  IN IF ps = {} THEN s
     ELSE LET p == CHOOSE a \in ps : \A b \in ps : b <= a
          IN SubSeq(s, 1, p - 1) \o r \o SubSeq(s, p + Len(w), Len(s))

\* s.replace(w, r, 1)
ReplaceFirst(s, w, r) ==
  LET p == Find(s, w)
  IN IF p = 0 THEN s
     ELSE SubSeq(s, 1, p - 1) \o r \o SubSeq(s, p + Len(w), Len(s))

\* re.split(r'[delims]', s) for a class of single characters, and s.split(c)
SplitFrom(s, delims, i, cur) ==
  LET ends == {k \in i..Len(s) : s[k] \in delims}
      n == Cardinality(ends)
      \* the k-th delimiter from i on; the end of s after the last one
      End(k) == IF k > n THEN Len(s) + 1
                ELSE CHOOSE e \in ends : Cardinality({q \in ends : q <= e}) = k
      Start(k) == IF k = 1 THEN i ELSE End(k - 1) + 1
  IN [k \in 1..(n + 1) |->
        (IF k = 1 THEN cur ELSE <<>>) \o SubSeq(s, Start(k), End(k) - 1)]

Split(s, delims) == SplitFrom(s, delims, 1, <<>>)

\* re.split(r'([delims])', s): the pieces with the delimiters kept, alternating
SplitKeepFrom(s, delims, i, cur) ==
  LET ends == {k \in i..Len(s) : s[k] \in delims}
      n == Cardinality(ends)
      End(k) == IF k > n THEN Len(s) + 1
                ELSE CHOOSE e \in ends : Cardinality({q \in ends : q <= e}) = k
      Start(k) == IF k = 1 THEN i ELSE End(k - 1) + 1
  IN [j \in 1..(2 * n + 1) |->
        IF j % 2 = 0 THEN <<s[End(j \div 2)]>>
        ELSE (IF j = 1 THEN cur ELSE <<>>)
             \o SubSeq(s, Start((j + 1) \div 2), End((j + 1) \div 2) - 1)]

SplitKeep(s, delims) == SplitKeepFrom(s, delims, 1, <<>>)

\* ''.join(parts)  and  sep.join(parts)
RECURSIVE Join(_, _)
Join(parts, sep) ==
  IF Len(parts) = 0 THEN <<>>
  ELSE IF Len(parts) = 1 THEN parts[1]
  ELSE parts[1] \o sep \o Join(Tail(parts), sep)

\* [f(x) for x in lst if keep(x)] for the one use the code makes of it:
\* [s.strip() for s in lst if s.strip()]
StripNonEmpty(lst) ==
  LET keep == {i \in DOMAIN lst : ~IsBlank(lst[i])}
      Kth(k) == CHOOSE i \in keep : Cardinality({j \in keep : j <= i}) = k
  IN [k \in 1..Cardinality(keep) |-> Strip(lst[Kth(k)])]

\* sum(xs) for a list of integers
RECURSIVE SumRange(_, _, _)
SumRange(xs, lo, hi) ==
  IF lo > hi THEN 0
  ELSE IF lo = hi THEN xs[lo]
  ELSE SumRange(xs, lo, (lo + hi) \div 2) + SumRange(xs, (lo + hi) \div 2 + 1, hi)

Sum(xs) == SumRange(xs, 1, Len(xs))

\* sum(1 for x in lst if P(x)) with P given as the set of indices satisfying it
Count(S) == Cardinality(S)

-----------------------------------------------------------------------------
(* Regular expressions (module re).  A pattern is a sequence of items; the  *)
(* library's patterns use only literals, alternations of literals,         *)
(* character classes, bounded runs of "." (any character but the newline)  *)
(* and the anchors ^ and $.                                                 *)

Lit(w) == [k |-> "lit", alts |-> {w}]
Alt(ws) == [k |-> "lit", alts |-> ws]
Cls(cs) == [k |-> "cls", chars |-> cs]
Dot(lo, hi) == [k |-> "any", min |-> lo, max |-> hi]   \* .{lo,hi}
DotFrom(lo) == [k |-> "any", min |-> lo, max |-> -1]   \* .{lo,}
Bol == [k |-> "bol"]                                    \* ^
Eol == [k |-> "eol"]                                    \* $

\* number of consecutive characters from pos on that "." matches
DotRun(s, pos) ==
  LET lfs == {j \in pos..Len(s) : s[j] = "LF"}
  IN IF lfs = {} THEN Len(s) - pos + 1
     ELSE (CHOOSE j \in lfs : \A q \in lfs : j <= q) - pos

\* can items i.. of pat match s from position pos on
RECURSIVE MatchFrom(_, _, _, _)
MatchFrom(pat, i, s, pos) ==
  IF i > Len(pat) THEN TRUE
  ELSE LET it == pat[i] IN
    CASE it.k = "bol" -> pos = 1 /\ MatchFrom(pat, i + 1, s, pos)
      [] it.k = "eol" -> /\ \/ pos = Len(s) + 1
                            \/ pos = Len(s) /\ s[pos] = "LF"
                         /\ MatchFrom(pat, i + 1, s, pos)
      [] it.k = "lit" -> \E w \in it.alts :
                            HasAt(s, w, pos) /\ MatchFrom(pat, i + 1, s, pos + Len(w))
      [] it.k = "cls" -> /\ pos <= Len(s)
                         /\ s[pos] \in it.chars
                         /\ MatchFrom(pat, i + 1, s, pos + 1)
      [] it.k = "any" -> LET run == DotRun(s, pos)
                             hi == IF it.max < 0 THEN run ELSE Min(it.max, run)
                         IN \E n \in it.min..hi : MatchFrom(pat, i + 1, s, pos + n)

\* pattern.search(s) is not None
Search(pat, s) == \E pos \in 1..(Len(s) + 1) : MatchFrom(pat, 1, s, pos)

-----------------------------------------------------------------------------
(* rules/patterns.py: the pattern library.                                 *)

FIXED_SENTENCE_PATTERNS ==
  << <<Lit(<<"bu", "jin3">>), Dot(2, 20), Lit(<<"er2", "qie">>), Dot(2, 20)>>,  \* 不仅.{2,20}而且.{2,20}
     <<Lit(<<"bu", "dan">>), Dot(2, 20), Lit(<<"er2", "qie">>), Dot(2, 20)>>,  \* 不但.{2,20}而且.{2,20}
     <<Lit(<<"bu", "zhi3">>), Dot(2, 20), Lit(<<"hai">>), Dot(2, 20)>>,  \* 不只.{2,20}还.{2,20}
     <<Lit(<<"yi1", "fang", "mian">>), Dot(5, 30), Lit(<<"ling", "yi1", "fang", "mian">>), Dot(5, 30)>>,  \* 一方面.{5,30}另一方面.{5,30}
     <<Lit(<<"yi1", "fang", "mian">>), Dot(5, 30), Lit(<<"ling", "wai">>), Dot(5, 30)>>,  \* 一方面.{5,30}另外.{5,30}
     <<Lit(<<"ji4">>), Dot(2, 15), Lit(<<"you4">>), Dot(2, 15)>>,  \* 既.{2,15}又.{2,15}
     <<Lit(<<"ji4">>), Dot(2, 15), Lit(<<"ye">>), Dot(2, 15)>>,  \* 既.{2,15}也.{2,15}
     <<Lit(<<"zhi3", "you3">>), Dot(3, 20), Lit(<<"cai", "neng">>), Dot(3, 20)>>,  \* 只有.{3,20}才能.{3,20}
     <<Lit(<<"zhi3", "you3">>), Dot(3, 20), Lit(<<"cai">>), Dot(3, 20)>>,  \* 只有.{3,20}才.{3,20}
     <<Lit(<<"wu2", "lun">>), Dot(3, 20), Lit(<<"dou">>), Dot(3, 20)>>,  \* 无论.{3,20}都.{3,20}
     <<Lit(<<"bu", "guan">>), Dot(3, 20), Lit(<<"dou">>), Dot(3, 20)>>,  \* 不管.{3,20}都.{3,20}
     <<Lit(<<"ru", "guo">>), Dot(3, 25), Lit(<<"jiu">>), Dot(3, 25)>>,  \* 如果.{3,25}就.{3,25}
     <<Lit(<<"jia", "ru">>), Dot(3, 25), Lit(<<"jiu">>), Dot(3, 25)>>,  \* 假如.{3,25}就.{3,25}
     <<Lit(<<"tang", "ruo">>), Dot(3, 25), Lit(<<"jiu">>), Dot(3, 25)>>,  \* 倘若.{3,25}就.{3,25}
     <<Lit(<<"sui", "ran">>), Dot(3, 25), Lit(<<"dan", "shi4">>), Dot(3, 25)>>,  \* 虽然.{3,25}但是.{3,25}
     <<Lit(<<"sui", "ran">>), Dot(3, 25), Lit(<<"ran", "er2">>), Dot(3, 25)>>,  \* 虽然.{3,25}然而.{3,25}
     <<Lit(<<"jin4", "guan">>), Dot(3, 25), Lit(<<"dan", "shi4">>), Dot(3, 25)>>,  \* 尽管.{3,25}但是.{3,25}
     <<Lit(<<"yin", "wei">>), Dot(3, 25), Lit(<<"suo", "yi3">>), Dot(3, 25)>>,  \* 因为.{3,25}所以.{3,25}
     <<Lit(<<"you2", "yu">>), Dot(3, 25), Lit(<<"yin", "ci3">>), Dot(3, 25)>>,  \* 由于.{3,25}因此.{3,25}
     <<Lit(<<"tong", "guo4">>), Dot(3, 20), Lit(<<"shi2", "xian4">>), Dot(3, 20)>>,  \* 通过.{3,20}实现.{3,20}
     <<Lit(<<"tong", "guo4">>), Dot(3, 20), Lit(<<"da", "dao">>), Dot(3, 20)>>,  \* 通过.{3,20}达到.{3,20}
     <<Lit(<<"jie", "zhu">>), Dot(3, 20), Lit(<<"shi2", "xian4">>), Dot(3, 20)>>,  \* 借助.{3,20}实现.{3,20}
     <<Lit(<<"sui2", "zhe">>), Dot(3, 20), Lit(<<"de", "fa", "zhan">>)>>,  \* 随着.{3,20}的发展
     <<Lit(<<"sui2", "zhe">>), Dot(3, 20), Lit(<<"de", "bian", "hua">>)>>,  \* 随着.{3,20}的变化
     <<Lit(<<"sui2", "zhe">>), Dot(3, 20), Lit(<<"de", "ti", "gao">>)>> >>  \* 随着.{3,20}的提高

PARALLEL_PATTERNS ==
  << <<Dot(2, 8), Cls({"fw,", ","}), Dot(2, 8), Cls({"fw,", ","}), Dot(2, 8)>>,  \* (.{2,8})[，,](.{2,8})[，,](.{2,8})
     <<Lit(<<"yao">>), Dot(2, 15), Cls({"fw,", ","}), Lit(<<"yao">>), Dot(2, 15), Cls({"fw,", ","}), Lit(<<"yao">>), Dot(2, 15)>>,  \* 要.{2,15}[，,]要.{2,15}[，,]要.{2,15}
     <<Lit(<<"neng">>), Dot(2, 15), Cls({"fw,", ","}), Lit(<<"neng">>), Dot(2, 15), Cls({"fw,", ","}), Lit(<<"neng">>), Dot(2, 15)>>,  \* 能.{2,15}[，,]能.{2,15}[，,]能.{2,15}
     <<Lit(<<"you3">>), Dot(2, 15), Cls({"fw,", ","}), Lit(<<"you3">>), Dot(2, 15), Cls({"fw,", ","}), Lit(<<"you3">>), Dot(2, 15)>>,  \* 有.{2,15}[，,]有.{2,15}[，,]有.{2,15}
     <<Lit(<<"bu", "jin3">>), Dot(2, 15), Cls({"fw,", ","}), Lit(<<"hai">>), Dot(2, 15), Cls({"fw,", ","}), Lit(<<"geng">>), Dot(2, 15)>> >>  \* 不仅.{2,15}[，,]还.{2,15}[，,]更.{2,15}

SUMMARY_DETAIL_PATTERNS ==
  << <<Bol, Dot(10, 30), Cls({"fw.", "fw:", ":"})>>,  \* ^.{10,30}[。：:]
     <<Alt({<<"zong", "zhi1b">>, <<"zong1", "shang", "suo", "shu">>, <<"zong", "er2", "yan", "zhi1b">>, <<"gui", "gen", "jie2", "di3">>, <<"zong1", "shang">>, <<"yin", "ci3">>}), Dot(10, 50), Cls({"fw.", "fw!"}), Eol>>,  \* (总之|综上所述|总而言之|归根结底|综上|因此).{10,50}[。！]$
     <<Alt({<<"shou", "xian1">>, <<"qi2", "ci4">>, <<"zai4", "ci4">>, <<"ran", "hou">>, <<"jie1", "zhe">>, <<"zui", "hou">>}), DotFrom(5), Cls({"fw."})>> >>  \* (首先|其次|再次|然后|接着|最后).{5,}[。]

LIST_PATTERNS ==
  << <<Lit(<<"di", "yi1">>), Dot(5, 30), Lit(<<"di", "er4">>), Dot(5, 30)>>,  \* 第一.{5,30}第二.{5,30}
     <<Lit(<<"di", "yi1">>), Dot(5, 30), Lit(<<"di", "er4">>), Dot(5, 30), Lit(<<"di", "san">>), Dot(5, 30)>>,  \* 第一.{5,30}第二.{5,30}第三.{5,30}
     <<Cls({"1", "fw1", "yi1"}), Dot(5, 30), Cls({"2", "fw2", "er4"}), Dot(5, 30)>>,  \* [1１一].{5,30}[2２二].{5,30}
     <<Cls({"1", "fw1", "yi1"}), Dot(5, 30), Cls({"2", "fw2", "er4"}), Dot(5, 30), Cls({"3", "fw3", "san"}), Dot(5, 30)>>,  \* [1１一].{5,30}[2２二].{5,30}[3３三].{5,30}
     <<Lit(<<"shou", "xian1">>), Dot(5, 30), Lit(<<"qi2", "ci4">>), Dot(5, 30)>>,  \* 首先.{5,30}其次.{5,30}
     <<Lit(<<"shou", "xian1">>), Dot(5, 30), Lit(<<"qi2", "ci4">>), Dot(5, 30), Lit(<<"zui", "hou">>), Dot(5, 30)>> >>  \* 首先.{5,30}其次.{5,30}最后.{5,30}

AI_OPENING_PATTERNS ==
  << <<Bol, Lit(<<"zai", "dang", "jin1", "she", "hui">>)>>,  \* ^在当今社会
     <<Bol, Lit(<<"zai", "xian4", "dai", "she", "hui">>)>>,  \* ^在现代社会
     <<Bol, Lit(<<"sui2", "zhe">>), Dot(2, 10), Lit(<<"de", "fa", "zhan">>)>>,  \* ^随着.{2,10}的发展
     <<Bol, Lit(<<"jin4b", "nian", "lai">>)>>,  \* ^近年来
     <<Bol, Lit(<<"zhong", "suo", "zhou", "zhi1">>)>>,  \* ^众所周知
     <<Bol, Lit(<<"wu2b", "yong1", "zhi4", "yi2">>)>>,  \* ^毋庸置疑
     <<Bol, Lit(<<"xian3", "er2", "yi4", "jian">>)>> >>  \* ^显而易见

AI_CLOSING_PATTERNS ==
  << <<Alt({<<"zong", "zhi1b">>, <<"zong1", "shang", "suo", "shu">>, <<"zong", "er2", "yan", "zhi1b">>}), DotFrom(10), Cls({"fw.", "fw!"}), Eol>>,  \* (总之|综上所述|总而言之).{10,}[。！]$
     <<Lit(<<"ju", "you3", "zhong4", "yao", "yi4b", "yi4c">>), Cls({"fw.", "fw!"}), Eol>>,  \* 具有重要意义[。！]$
     <<Lit(<<"fa", "hui1", "zhong4", "yao", "zuo", "yong">>), Cls({"fw.", "fw!"}), Eol>>,  \* 发挥重要作用[。！]$
     <<Lit(<<"chan", "sheng", "shen", "yuan", "ying", "xiang">>), Cls({"fw.", "fw!"}), Eol>> >>  \* 产生深远影响[。！]$


\* check_pattern(text, pattern_type): the list of (type, pattern) matches;
\* a matched pattern is named by its index in its list
MatchesOf(s, type, patterns) ==
  LET hit == {i \in DOMAIN patterns : Search(patterns[i], s)}
      \* the k-th pattern that matches, in the order of the list
      Kth(k) == CHOOSE i \in hit : Cardinality({j \in hit : j <= i}) = k
  IN [k \in 1..Cardinality(hit) |-> <<type, Kth(k)>>]

check_pattern(s, pattern_type) ==
  (IF pattern_type \in {"all", "fixed"}
     THEN MatchesOf(s, "fixed", FIXED_SENTENCE_PATTERNS) ELSE <<>>)
  \o (IF pattern_type \in {"all", "parallel"}
        THEN MatchesOf(s, "parallel", PARALLEL_PATTERNS) ELSE <<>>)
  \o (IF pattern_type \in {"all", "summary"}
        THEN MatchesOf(s, "summary", SUMMARY_DETAIL_PATTERNS) ELSE <<>>)
  \o (IF pattern_type \in {"all", "list"}
        THEN MatchesOf(s, "list", LIST_PATTERNS) ELSE <<>>)
  \o (IF pattern_type \in {"all", "opening"}
        THEN MatchesOf(s, "opening", AI_OPENING_PATTERNS) ELSE <<>>)
  \o (IF pattern_type \in {"all", "closing"}
        THEN MatchesOf(s, "closing", AI_CLOSING_PATTERNS) ELSE <<>>)

-----------------------------------------------------------------------------
(* rules/ai_keywords.py and rules/replacements.py: the lexicon.  The two   *)
(* files hold word lists only; the lists below are a small lexicon of the  *)
(* shape the specification describes (section 2, Lexicon), with words the  *)
(* specification and the tests use.                                        *)

w_zhongyao == <<"zhong4", "yao">>                  \* 重要
w_youxiao == <<"you3", "xiao">>                    \* 有效
w_xianzhu == <<"xian3", "zhu4">>                   \* 显著
w_shouxian == <<"shou", "xian1">>                  \* 首先
w_qici == <<"qi2", "ci4">>                         \* 其次
w_zuihou == <<"zui", "hou">>                       \* 最后
w_yinci == <<"yin", "ci3">>                        \* 因此
w_xianeryijian == <<"xian3", "er2", "yi4", "jian">>    \* 显而易见
w_wuyongzhiyi == <<"wu2b", "yong1", "zhi4", "yi2">>    \* 毋庸置疑
w_xiangdui == <<"xiang1", "dui">>                  \* 相对
w_jibenshang == <<"ji1", "ben", "shang">>          \* 基本上
w_juyouzhongyaoyiyi == <<"ju", "you3", "zhong4", "yao", "yi4b", "yi4c">>  \* 具有重要意义
w_zhidezhuyi == <<"zhi2", "de2", "zhu4b", "yi4b">> \* 值得注意
w_yaojin == <<"yao", "jin3b">>                     \* 要紧
w_guanjian == <<"guan1", "jian4">>                 \* 关键
w_guanyong == <<"guan", "yong">>                   \* 管用
w_henmingxian == <<"hen", "ming", "xian3">>        \* 很明显
w_mingbaizhe == <<"ming", "bai", "zhe">>           \* 明摆着
w_xian == <<"xian1">>                              \* 先
w_kaixin == <<"kai", "xin">>                       \* 开心
w_kuaile == <<"kuai", "le">>                       \* 快乐
w_nanguo == <<"nan", "guo4">>                      \* 难过
w_wo == <<"wo">>                                   \* 我
w_women == <<"wo", "men">>                         \* 我们
w_keneng == <<"ke", "neng">>                       \* 可能
w_yexu == <<"ye", "xu3">>                          \* 也许
w_ba == <<"ba">>                                   \* 吧
w_ne == <<"ne">>                                   \* 呢

AI_HIGH_FREQ_WORDS == <<w_zhongyao, w_youxiao, w_xianzhu>>
AI_CONNECTORS == <<w_shouxian, w_qici, w_zuihou, w_yinci>>
AI_FORMAL_WORDS == <<w_xianeryijian, w_wuyongzhiyi>>
AI_QUALIFIERS == <<w_xiangdui, w_jibenshang>>
AI_FIXED_PHRASES == <<w_juyouzhongyaoyiyi, w_zhidezhuyi>>

\* word -> candidate replacements
WORD_REPLACEMENTS ==
  (w_zhongyao :> <<w_yaojin, w_guanjian>>) @@
  (w_youxiao :> <<w_guanyong>>) @@
  (w_xianeryijian :> <<w_henmingxian, w_mingbaizhe>>) @@
  (w_shouxian :> <<w_xian>>)

\* the lists of EMOTION_WORDS.values(), one per emotion group
EMOTION_WORDS == << <<w_kaixin, w_kuaile>>, <<w_nanguo>> >>
FIRST_PERSON_EXPRESSIONS == <<w_wo, w_women>>
UNCERTAINTY_EXPRESSIONS == <<w_keneng, w_yexu>>
COLLOQUIAL_MARKERS == <<w_ba, w_ne>>

-----------------------------------------------------------------------------
(* jieba.cut: the external tokenizer.  It cuts a text into consecutive     *)
(* tokens whose concatenation is the text.  Modelled as forward maximum    *)
(* matching against a dictionary: at each position the longest dictionary  *)
(* word starting there, else the single character.                         *)

SeqToSet(lst) == {lst[i] : i \in DOMAIN lst}

JiebaDict ==
  SeqToSet(AI_HIGH_FREQ_WORDS) \cup SeqToSet(AI_CONNECTORS)
  \cup SeqToSet(AI_FORMAL_WORDS) \cup SeqToSet(AI_QUALIFIERS)
  \cup SeqToSet(FIRST_PERSON_EXPRESSIONS)
  \cup UNION {SeqToSet(EMOTION_WORDS[g]) : g \in DOMAIN EMOTION_WORDS}
  \cup UNION {SeqToSet(WORD_REPLACEMENTS[w]) : w \in DOMAIN WORD_REPLACEMENTS}
  \cup {<<"tian", "qi4">>}                       \* 天气

RECURSIVE CutFrom(_, _)
CutFrom(s, i) ==
  IF i > Len(s) THEN <<>>
  ELSE LET cands == {w \in JiebaDict : HasAt(s, w, i)}
       IN IF cands = {} THEN <<<<s[i]>>>> \o CutFrom(s, i + 1)
          ELSE LET w == CHOOSE v \in cands : \A u \in cands : Len(u) <= Len(v)
               IN <<w>> \o CutFrom(s, i + Len(w))

\* the characters that occur in dictionary words; any other character is a
\* token of its own, and no dictionary word reaches across it
DictChars == UNION {SeqToSet(w) : w \in JiebaDict}

\* parts[lo] \o ... \o parts[hi]
RECURSIVE Concat(_, _, _)
Concat(parts, lo, hi) ==
  IF lo > hi THEN <<>>
  ELSE IF lo = hi THEN parts[lo]
  ELSE Concat(parts, lo, (lo + hi) \div 2) \o Concat(parts, (lo + hi) \div 2 + 1, hi)

\* the tokens of s: s is cut at the characters outside the dictionary, each
\* a token, and the pieces between them are matched forward
jieba_cut(s) ==
  LET pieces == SplitKeep(s, SeqToSet(s) \ DictChars)
  IN Concat([j \in DOMAIN pieces |->
               IF j % 2 = 0 THEN <<pieces[j]>> ELSE CutFrom(pieces[j], 1)],
            1, Len(pieces))

-----------------------------------------------------------------------------
(* Exact arithmetic for the scores.  A value is a fraction [n, d], d > 0.  *)

Frac(num, den) == [n |-> num, d |-> den]

\* mutant: the clamp to 100 is left out
Min100_unclamped(x) == x

\* min(100, x)
Min100(x) == IF x.n >= 100 * x.d THEN Frac(100, 1) ELSE x

\* round(x, 2), in hundredths; Python rounds a tie to the even neighbour
Round2(x) ==
  LET num == 100 * x.n
      q == num \div x.d
      r == num % x.d
  IN IF 2 * r < x.d THEN q
     ELSE IF 2 * r > x.d THEN q + 1
     ELSE IF q % 2 = 0 THEN q ELSE q + 1

EmptyDict == <<>>

-----------------------------------------------------------------------------
(* detector.py: AIDetector.                                                *)

\* mutant: the count is scaled to a percentage but not divided by the number
\* of tokens
Percent_undivided(count, total_words) == Frac(100 * count, 1)

\* count / total_words * 100
Percent(count, total_words) == Frac(100 * count, total_words)

_analyze_lexical(t) ==
  LET words == jieba_cut(t)
      total_words == Len(words)
  IN IF total_words = 0 THEN [score |-> 0, details |-> EmptyDict]
     ELSE
       LET high_freq_count == Count({i \in DOMAIN words : InList(words[i], AI_HIGH_FREQ_WORDS)})
           connector_count == Count({i \in DOMAIN words : InList(words[i], AI_CONNECTORS)})
           formal_count == Count({i \in DOMAIN words : InList(words[i], AI_FORMAL_WORDS)})
           qualifier_count == Count({i \in DOMAIN words : InList(words[i], AI_QUALIFIERS)})
           fixed_phrase_count ==
             Count({i \in DOMAIN AI_FIXED_PHRASES : Contains(t, AI_FIXED_PHRASES[i])})
           high_freq_ratio == Percent(high_freq_count, total_words)
           connector_ratio == Percent(connector_count, total_words)
           formal_ratio == Percent(formal_count, total_words)
           score == Min100(Frac(
               high_freq_ratio.n * 15 + connector_ratio.n * 15 + formal_ratio.n * 10
                 + (qualifier_count * 2 + fixed_phrase_count * 5) * total_words,
               total_words))
       IN [score |-> Round2(score),
           details |-> [high_freq_words |-> high_freq_count,
                        connectors |-> connector_count,
                        formal_words |-> formal_count,
                        qualifiers |-> qualifier_count,
                        fixed_phrases |-> fixed_phrase_count,
                        high_freq_ratio |-> Round2(high_freq_ratio),
                        connector_ratio |-> Round2(connector_ratio),
                        formal_ratio |-> Round2(formal_ratio)]]

\* the sentence-ending characters of re.split(r'[。！？\n]', text)
SentenceEnds == {"fw.", "fw!", "fw?", "LF"}

\* len(matches) summed over the sentences, for one pattern type
MatchCount(sentences, type) ==
  Sum([i \in DOMAIN sentences |-> Len(check_pattern(sentences[i], type))])

_analyze_syntactic(t) ==
  LET sentences == StripNonEmpty(Split(t, SentenceEnds))
  IN IF Len(sentences) = 0 THEN [score |-> 0, details |-> EmptyDict]
     ELSE
       LET n == Len(sentences)
           sentence_lengths == [i \in 1..n |-> Len(sentences[i])]
           total_length == Sum(sentence_lengths)
           avg_length == Frac(total_length, n)
           too_long == Count({i \in 1..n : sentence_lengths[i] > 40})
           too_short == Count({i \in 1..n : sentence_lengths[i] < 5})
           fixed_patterns == MatchCount(sentences, "fixed")
           parallel_patterns == MatchCount(sentences, "parallel")
           list_patterns == Len(check_pattern(t, "list"))
           \* (avg_length / 50) * 20 + ...
           score == Min100(Frac(
               avg_length.n * 20
                 + (fixed_patterns * 8 + parallel_patterns * 10 + list_patterns * 12
                    + too_long * 5) * 50 * avg_length.d,
               50 * avg_length.d))
       IN [score |-> Round2(score),
           details |-> [sentence_count |-> n,
                        avg_sentence_length |-> Round2(avg_length),
                        fixed_patterns |-> fixed_patterns,
                        parallel_patterns |-> parallel_patterns,
                        list_patterns |-> list_patterns,
                        too_long_sentences |-> too_long,
                        too_short_sentences |-> too_short]]

list_indicators ==
  << <<"di", "yi1">>, <<"di", "er4">>, <<"di", "san">>,   \* 第一 第二 第三
     w_shouxian, w_qici, w_zuihou >>                           \* 首先 其次 最后

\* mutant: every occurrence of an indicator is counted
list_structure_count_occurrences(t) ==
  Sum([i \in DOMAIN list_indicators |->
         Cardinality({p \in 1..Len(t) : HasAt(t, list_indicators[i], p)})])

\* sum(1 for indicator in list_indicators if indicator in text)
list_structure_count(t) ==
  Count({i \in DOMAIN list_indicators : Contains(t, list_indicators[i])})

_analyze_structural(t) ==
  LET paragraphs == StripNonEmpty(Split(t, {"LF"}))
      has_opening == Len(check_pattern(t, "opening")) > 0
      has_closing == Len(check_pattern(t, "closing")) > 0
      para_lengths == [i \in DOMAIN paragraphs |-> Len(paragraphs[i])]
      avg_para_length ==
        IF Len(paragraphs) > 0 THEN Frac(Sum(para_lengths), Len(paragraphs))
        ELSE Frac(Len(t), 1)
      score == Min100(Frac(
          (IF has_opening THEN 30 ELSE 0)
            + (IF has_closing THEN 30 ELSE 0)
            + list_structure_count(t) * 8
            + (IF avg_para_length.n > 100 * avg_para_length.d THEN 20 ELSE 0),
          1))
  IN [score |-> Round2(score),
      details |-> [paragraph_count |-> Len(paragraphs),
                   has_opening_pattern |-> has_opening,
                   has_closing_pattern |-> has_closing,
                   list_structure_count |-> list_structure_count(t),
                   avg_paragraph_length |-> Round2(avg_para_length)]]

_analyze_semantic(t) ==
  LET words == jieba_cut(t)
      total_words == Len(words)
  IN IF total_words = 0 THEN [score |-> 0, details |-> EmptyDict]
     ELSE
       LET qualifier_count == Count({i \in DOMAIN words : InList(words[i], AI_QUALIFIERS)})
           emotion_count ==
             Sum([g \in DOMAIN EMOTION_WORDS |->
                    Count({i \in DOMAIN words : InList(words[i], EMOTION_WORDS[g])})])
           first_person_count ==
             Count({i \in DOMAIN words : InList(words[i], FIRST_PERSON_EXPRESSIONS)})
           emotion_ratio == Percent(emotion_count, total_words)
           first_person_ratio == Percent(first_person_count, total_words)
           score == Min100(Frac(
               qualifier_count * 5 * total_words
                 + Max(0, 50 * total_words - emotion_ratio.n * 10)
                 + Max(0, 30 * total_words - first_person_ratio.n * 10),
               total_words))
       IN [score |-> Round2(score),
           details |-> [qualifier_count |-> qualifier_count,
                        emotion_count |-> emotion_count,
                        first_person_count |-> first_person_count,
                        emotion_ratio |-> Round2(emotion_ratio),
                        first_person_ratio |-> Round2(first_person_ratio)]]

\* mutant: the thresholds are compared with > instead of >=
Band_strict(total_score) ==
  IF total_score > 800000
  THEN [level |-> "very high", conclusion |-> "very evident AI features"]
  ELSE IF total_score > 600000
  THEN [level |-> "high", conclusion |-> "probably AI generated"]
  ELSE IF total_score > 400000
  THEN [level |-> "medium", conclusion |-> "some AI features"]
  ELSE IF total_score > 200000
  THEN [level |-> "low", conclusion |-> "few AI features"]
  ELSE [level |-> "very low", conclusion |-> "natural, almost no AI features"]

\* the if / elif chain of _generate_summary: level and conclusion
\* (total_score is in units of 1/10000)
Band(total_score) ==
  IF total_score >= 800000
  THEN [level |-> "very high",                                   \* 极高
        conclusion |-> "very evident AI features"]               \* 文本具有非常明显的AI生成特征
  ELSE IF total_score >= 600000
  THEN [level |-> "high",                                        \* 较高
        conclusion |-> "probably AI generated"]                  \* 文本很可能由AI生成
  ELSE IF total_score >= 400000
  THEN [level |-> "medium",                                      \* 中等
        conclusion |-> "some AI features"]                       \* 文本具有一些AI特征，但不明显
  ELSE IF total_score >= 200000
  THEN [level |-> "low",                                         \* 较低
        conclusion |-> "few AI features"]                        \* 文本AI特征较少，较为自然
  ELSE [level |-> "very low",                                    \* 很低
        conclusion |-> "natural, almost no AI features"]         \* 文本非常自然，几乎无AI特征

\* mutant: among equal maxima the last item wins
MaxDim_last(dimensions) ==
  dimensions[CHOOSE i \in DOMAIN dimensions :
    /\ \A j \in DOMAIN dimensions : dimensions[j][2] <= dimensions[i][2]
    /\ \A j \in DOMAIN dimensions : j > i => dimensions[j][2] < dimensions[i][2]]

\* max(dimensions.items(), key=lambda x: x[1]): the first maximal item, the
\* dict keeping its items in insertion order
MaxDim(dimensions) ==
  dimensions[CHOOSE i \in DOMAIN dimensions :
    /\ \A j \in DOMAIN dimensions : dimensions[j][2] <= dimensions[i][2]
    /\ \A j \in DOMAIN dimensions : j < i => dimensions[j][2] < dimensions[i][2]]

\* total_score is in units of 1/10000, the dimension scores in hundredths
_generate_summary(total_score, lexical, syntactic, structural, semantic) ==
  LET band == Band(total_score)
      dimensions == << <<"lexical", lexical.score>>, <<"syntactic", syntactic.score>>,
                       <<"structural", structural.score>>, <<"semantic", semantic.score>> >>
      max_dim == MaxDim(dimensions)
  IN [level |-> band.level,
      conclusion |-> band.conclusion,
      main_issue |-> max_dim]

\* mutant: the lexical dimension weighs 0.5
TotalScore_lexical_half(lexical, syntactic, structural, semantic) ==
  lexical.score * 50 + syntactic.score * 25 + structural.score * 25 + semantic.score * 20

\* mutant: the four dimensions are averaged with equal weights
TotalScore_equal_weights(lexical, syntactic, structural, semantic) ==
  (lexical.score + syntactic.score + structural.score + semantic.score) * 25

\* total_score, in units of 1/10000: the weights 0.3, 0.25, 0.25, 0.2 are
\* 30, 25, 25, 20 hundredths, the dimension scores are in hundredths
TotalScore(lexical, syntactic, structural, semantic) ==
  lexical.score * 30 + syntactic.score * 25 + structural.score * 25 + semantic.score * 20

\* mutant: the verdict is taken from the rounded score
IsAi_rounded(total_score) == Round2(Frac(total_score, 10000)) >= 6000

\* is_ai = total_score >= 60
IsAi(total_score) == total_score >= 600000

\* mutant: the division by 100 is left out
Confidence_percent(total_score) == total_score * 100

\* confidence = total_score / 100.0, in units of 1/1000000
Confidence(total_score) == total_score

\* mutant: the result for an empty text carries an entry, with score 0 and an
\* empty detail map, for each dimension
EmptyTextResult_dimension_entries ==
  [is_ai |-> FALSE, confidence |-> 0, score |-> 0,
   details |-> [d \in {"lexical", "syntactic", "structural", "semantic"} |->
                  [score |-> 0, details |-> EmptyDict]],
   text_length |-> 0]

\* the dict detect returns for an empty or whitespace-only text
EmptyTextResult ==
  [is_ai |-> FALSE, confidence |-> 0, score |-> 0, details |-> EmptyDict,
   text_length |-> 0]

\* detect(text)
\* the result dict of detect, from the four analyses and total_score
DetectResult(t, lexical_result, syntactic_result, structural_result, semantic_result, total_score) ==
  [is_ai |-> IsAi(total_score),
   confidence |-> Confidence(total_score),
   score |-> Round2(Frac(total_score, 10000)),
   details |-> [lexical |-> lexical_result,
                syntactic |-> syntactic_result,
                structural |-> structural_result,
                semantic |-> semantic_result],
   text_length |-> Len(t),
   summary |-> _generate_summary(total_score, lexical_result, syntactic_result,
                                 structural_result, semantic_result)]

\* total_score is computed from the four analyses, then the result is built
DetectScored(t, lexical_result, syntactic_result, structural_result, semantic_result) ==
  DetectResult(t, lexical_result, syntactic_result, structural_result, semantic_result,
               TotalScore(lexical_result, syntactic_result, structural_result,
                          semantic_result))

\* detect(text): the empty-text return, else the four analyses in order
detect(t) ==
  IF IsBlank(t)
  THEN EmptyTextResult
  ELSE DetectScored(t, _analyze_lexical(t), _analyze_syntactic(t), _analyze_structural(t),
                    _analyze_semantic(t))

\* KeyError(key), raised by d[key] on a dict without the key
KeyError(key) == [raised |-> "KeyError", key |-> key]

\* the keys generate_report looks up, as paths from detection_result, in the
\* order the f-strings evaluate them
ReportPaths ==
  << <<"summary", "conclusion">>, <<"summary", "level">>, <<"score">>, <<"confidence">>,
     <<"details", "lexical">>,
     <<"details", "lexical", "score">>,
     <<"details", "lexical", "details", "high_freq_words">>,
     <<"details", "lexical", "details", "high_freq_ratio">>,
     <<"details", "lexical", "details", "connectors">>,
     <<"details", "lexical", "details", "connector_ratio">>,
     <<"details", "lexical", "details", "formal_words">>,
     <<"details", "lexical", "details", "formal_ratio">>,
     <<"details", "lexical", "details", "qualifiers">>,
     <<"details", "lexical", "details", "fixed_phrases">>,
     <<"details", "syntactic">>,
     <<"details", "syntactic", "score">>,
     <<"details", "syntactic", "details", "sentence_count">>,
     <<"details", "syntactic", "details", "avg_sentence_length">>,
     <<"details", "syntactic", "details", "fixed_patterns">>,
     <<"details", "syntactic", "details", "parallel_patterns">>,
     <<"details", "syntactic", "details", "list_patterns">>,
     <<"details", "structural">>,
     <<"details", "structural", "score">>,
     <<"details", "structural", "details", "paragraph_count">>,
     <<"details", "structural", "details", "avg_paragraph_length">>,
     <<"details", "structural", "details", "has_opening_pattern">>,
     <<"details", "structural", "details", "has_closing_pattern">>,
     <<"details", "structural", "details", "list_structure_count">>,
     <<"details", "semantic">>,
     <<"details", "semantic", "score">>,
     <<"details", "semantic", "details", "qualifier_count">>,
     <<"details", "semantic", "details", "emotion_count">>,
     <<"details", "semantic", "details", "emotion_ratio">>,
     <<"details", "semantic", "details", "first_person_count">>,
     <<"details", "semantic", "details", "first_person_ratio">>,
     <<"summary", "main_issue">> >>

\* the first key of path that the nested dicts of d do not have, <<>> if none
RECURSIVE MissingKey(_, _)
MissingKey(d, path) ==
  IF path = <<>> THEN <<>>
  ELSE IF Head(path) \notin DOMAIN d THEN <<Head(path)>>
  ELSE MissingKey(d[Head(path)], Tail(path))

\* d[k1][k2]... for a path whose keys are all there
RECURSIVE Lookup(_, _)
Lookup(d, path) == IF path = <<>> THEN d ELSE Lookup(d[Head(path)], Tail(path))

\* generate_report(detection_result): the report, one entry per value it
\* formats (the fixed ruler and title lines carry no value), or the KeyError
\* of the first lookup that fails
generate_report(detection_result) ==
  LET failing == {i \in DOMAIN ReportPaths : MissingKey(detection_result, ReportPaths[i]) # <<>>}
  IN IF failing # {}
     THEN LET first == CHOOSE i \in failing : \A j \in failing : i <= j
          IN KeyError(MissingKey(detection_result, ReportPaths[first])[1])
     ELSE [lines |-> [i \in DOMAIN ReportPaths |->
                        <<ReportPaths[i], Lookup(detection_result, ReportPaths[i])>>]]

-----------------------------------------------------------------------------
(* humanizer.py: AIHumanizer.  The module random is nondeterminism: a      *)
(* stage maps the working text to the set of its possible outcomes         *)
(* [text, changes, draws], draws counting the calls it makes to random.    *)
(* A change entry is a tuple: its kind, then the words the entry quotes.   *)

Outcome(t, cs, n) == [text |-> t, changes |-> cs, draws |-> n]

\* the outcomes of a loop: Step(st, item) applied to every item in order
RECURSIVE ForEach(_, _, _, _)
ForEach(Step(_, _), items, i, S) ==
  IF i > Len(items) THEN S
  ELSE ForEach(Step, items, i + 1, UNION {Step(st, items[i]) : st \in S})

\* mutant: the replacement is made but no change entry is appended
ReplaceByChoice_unlogged(st, word, candidates, kind, extra) ==
  {Outcome(ReplaceFirst(st.text, word, candidates[c]), st.changes, st.draws + extra + 1) :
     c \in DOMAIN candidates}

\* random.choice(lst) then text.replace(word, new_word, 1), logged as kind
ReplaceByChoice(st, word, candidates, kind, extra) ==
  {Outcome(ReplaceFirst(st.text, word, candidates[c]),
           Append(st.changes, <<kind, word, candidates[c]>>),
           st.draws + extra + 1) : c \in DOMAIN candidates}

LightStep(st, word) ==
  IF Contains(st.text, word) /\ word \in DOMAIN WORD_REPLACEMENTS
     /\ Len(WORD_REPLACEMENTS[word]) > 0
  THEN ReplaceByChoice(st, word, WORD_REPLACEMENTS[word], "replace", 0)
  ELSE {st}

_light_humanize(t) ==
  LET high == ForEach(LightStep, Prefix(AI_HIGH_FREQ_WORDS, 20), 1, {Outcome(t, <<>>, 0)})
  IN ForEach(LightStep, Prefix(AI_FORMAL_WORDS, 10), 1, high)

\* ratio is in percent; random.random() lies in [0, 1)
_replace_words(t, ratio) ==
  LET words == jieba_cut(t)
      HasEntry(word) == word \in DOMAIN WORD_REPLACEMENTS
      Step(st, word) ==
        IF word \in DOMAIN WORD_REPLACEMENTS
        THEN \* random.random() < ratio fails
             (IF ratio < 100 THEN {Outcome(st.text, st.changes, st.draws + 1)} ELSE {})
             \cup
             \* random.random() < ratio holds
             (IF ratio <= 0 THEN {}
              ELSE IF Len(WORD_REPLACEMENTS[word]) = 0
                   THEN {Outcome(st.text, st.changes, st.draws + 1)}
              ELSE IF Contains(st.text, word)
                   THEN ReplaceByChoice(st, word, WORD_REPLACEMENTS[word],
                                        "word substitution", 1)
              ELSE {Outcome(st.text, st.changes, st.draws + 2)})
        ELSE {st}
  IN \* a token without an entry leaves everything as it is
     ForEach(Step, SelectSeq(words, HasEntry), 1, {Outcome(t, <<>>, 0)})

w_bujin == <<"bu", "jin3">>       \* 不仅
w_erqie == <<"er2", "qie">>       \* 而且
w_xianshuo == <<"xian1", "shuo">> \* 先说
w_zaishuo == <<"zai4", "shuo">>   \* 再说

\* the match of r'不仅(.{2,20})而且(.{2,20})' that starts at p, if there is one:
\* both groups are greedy, so X is the longest run that 而且 and two more
\* characters follow, and Y is as long as it can be
BujinMatchAt(s, p) ==
  LET xs == {n \in 2..Min(20, DotRun(s, p + 2)) :
               HasAt(s, w_erqie, p + 2 + n) /\ DotRun(s, p + n + 4) >= 2}
  IN IF HasAt(s, w_bujin, p) /\ xs # {}
     THEN LET n == CHOOSE a \in xs : \A b \in xs : b <= a
              m == Min(20, DotRun(s, p + n + 4))
          IN [ok |-> TRUE,
              x |-> SubSeq(s, p + 2, p + n + 1),
              y |-> SubSeq(s, p + n + 4, p + n + 3 + m),
              end |-> p + n + 4 + m]
     ELSE [ok |-> FALSE]

\* re.findall(pattern, text): the (X, Y) of the non-overlapping matches, left to right
RECURSIVE BujinFindAll(_, _)
BujinFindAll(s, p) ==
  LET starts == {q \in p..Len(s) : BujinMatchAt(s, q).ok}
  IN IF starts = {} THEN <<>>
     ELSE LET m == BujinMatchAt(s, CHOOSE q \in starts : \A r \in starts : q <= r)
          IN <<<<m.x, m.y>>>> \o BujinFindAll(s, m.end)

\* step 3 of _adjust_syntax on the pieces of re.split(r'([。！？])', text):
\* the new sentences and the number of sentences split
RECURSIVE SplitLong(_, _)
\* mutant: a long sentence is split at its first comma
SplitLong_first_comma(sentences, i) ==
  IF i > Len(sentences) THEN [out |-> <<>>, splits |-> 0]
  ELSE LET sentence == IF i + 1 <= Len(sentences)
                       THEN sentences[i] \o sentences[i + 1] ELSE sentences[i]
           rest == SplitLong(sentences, i + 2)
       IN IF Len(sentence) > 50 /\ Contains(sentence, <<"fw,">>)
          THEN LET parts == Split(sentence, {"fw,"})
                   mid == 1
                   first_half == Join(SubSeq(parts, 1, mid), <<"fw,">>) \o <<"fw.">>
                   second_half == Join(SubSeq(parts, mid + 1, Len(parts)), <<"fw,">>)
               IN [out |-> <<first_half, second_half>> \o rest.out,
                   splits |-> rest.splits + 1]
          ELSE [out |-> <<sentence>> \o rest.out, splits |-> rest.splits]

SplitLong(sentences, i) ==
  IF i > Len(sentences) THEN [out |-> <<>>, splits |-> 0]
  ELSE LET sentence == IF i + 1 <= Len(sentences)
                       THEN sentences[i] \o sentences[i + 1] ELSE sentences[i]
           rest == SplitLong(sentences, i + 2)
       IN IF Len(sentence) > 50 /\ Contains(sentence, <<"fw,">>)
          THEN LET parts == Split(sentence, {"fw,"})
                   mid == Len(parts) \div 2
                   first_half == Join(SubSeq(parts, 1, mid), <<"fw,">>) \o <<"fw.">>
                   second_half == Join(SubSeq(parts, mid + 1, Len(parts)), <<"fw,">>)
               IN [out |-> <<first_half, second_half>> \o rest.out,
                   splits |-> rest.splits + 1]
          ELSE [out |-> <<sentence>> \o rest.out, splits |-> rest.splits]

\* mutant: each of the two literals is replaced when it occurs, and the entry
\* is recorded when either does
BreakShouxianQici_either(t) ==
  IF Contains(t, w_shouxian) \/ Contains(t, w_qici)
  THEN Outcome(ReplaceFirst(ReplaceFirst(t, w_shouxian, w_xianshuo), w_qici, w_zaishuo),
               <<<<"syntax: break shouxian-qici">>>>, 0)
  ELSE Outcome(t, <<>>, 0)

\* step 1 of _adjust_syntax: 首先 ... 其次
BreakShouxianQici(t) ==
  IF Contains(t, w_shouxian) /\ Contains(t, w_qici)
  THEN Outcome(ReplaceFirst(ReplaceFirst(t, w_shouxian, w_xianshuo), w_qici, w_zaishuo),
               <<<<"syntax: break shouxian-qici">>>>, 0)
  ELSE Outcome(t, <<>>, 0)

_adjust_syntax(t) ==
  LET \* 1. 首先 ... 其次
      st1 == BreakShouxianQici(t)
      \* 2. 不仅 X 而且 Y, at most the first two matches
      matches == BujinFindAll(st1.text, 1)
      Simplify(st, match) ==
        LET original == w_bujin \o match[1] \o w_erqie \o match[2]
            simplified_patterns ==
              << match[1] \o <<"fw,", "hai">> \o match[2],     \* X，还Y
                 match[1] \o <<"fw,", "ye">> \o match[2],      \* X，也Y
                 <<"ji4">> \o match[1] \o <<"you4">> \o match[2] >>  \* 既X又Y
        IN {Outcome(ReplaceFirst(st.text, original, simplified_patterns[c]),
                    Append(st.changes, <<"syntax simplify", original, simplified_patterns[c]>>),
                    st.draws + 1) : c \in 1..3}
      S2 == ForEach(Simplify, Prefix(matches, 2), 1, {st1})
      \* 3. split the sentences that are too long
      Split3(st) ==
        LET r == SplitLong(SplitKeep(st.text, {"fw.", "fw!", "fw?"}), 1)
        IN Outcome(Join(r.out, <<>>),
                   st.changes \o [k \in 1..r.splits |-> <<"syntax: split long sentence">>],
                   st.draws)
  IN {Split3(st) : st \in S2}

\* [i for i in range(0, len(sentences), 2) if sentences[i].strip()], 1-based
SentenceIndices(sentences) ==
  {i \in DOMAIN sentences : i % 2 = 1 /\ ~IsBlank(sentences[i])}

\* random.sample(population, k): the lists of k distinct members
RECURSIVE Samples(_, _)
Samples(population, k) ==
  IF k = 0 THEN {<<>>}
  ELSE UNION {{<<x>> \o rest : rest \in Samples(population \ {x}, k - 1)} :
              x \in population}

\* the state of a loop over selected sentences
Working(ss, cs, n) == [sentences |-> ss, changes |-> cs, draws |-> n]
Joined(st) == Outcome(Join(st.sentences, <<>>), st.changes, st.draws)

first_person_choices ==
  << <<"wo", "jue", "de2">>, <<"wo", "ren", "wei">>,             \* 我觉得 我认为
     <<"ge", "ren2", "jue", "de2">>, <<"yi1b", "wo", "kan">> >>  \* 个人觉得 依我看

_add_personal_expressions(t) ==
  LET sentences == SplitKeep(t, {"fw.", "fw!", "fw?", "LF"})
      sentence_indices == SentenceIndices(sentences)
      Step(st, idx) ==
        LET sentence == st.sentences[idx]
        IN IF Len(sentence) > 10
           THEN {Working([st.sentences EXCEPT ![idx] = first_person_choices[c] \o sentence],
                         Append(st.changes, <<"first person", first_person_choices[c]>>),
                         st.draws + 1) : c \in DOMAIN first_person_choices}
           ELSE {st}
  IN IF sentence_indices # {}
     THEN UNION {{Joined(st) : st \in ForEach(Step, selected, 1, {Working(sentences, <<>>, 1)})} :
                 selected \in Samples(sentence_indices, Min(2, Cardinality(sentence_indices)))}
     ELSE {Outcome(Join(sentences, <<>>), <<>>, 0)}

emotion_word_choices == << <<"zhen", "de">>, <<"que", "shi2">>, <<"ting">> >>  \* 真的 确实 挺

\* mutant: two sentences are enough for the pass to act
_add_emotions_from_two(t) ==
  LET sentences == SplitKeep(t, {"fw.", "fw!", "fw?"})
      sentence_indices == SentenceIndices(sentences)
      Step(st, idx) ==
        IF idx + 1 <= Len(st.sentences) /\ st.sentences[idx + 1] = <<"fw.">>
        THEN \* random.random() < 0.5 fails, or holds
             {Working(st.sentences, st.changes, st.draws + 1)}
             \cup
             {Working([st.sentences EXCEPT ![idx] = emotion_word_choices[c] \o st.sentences[idx]],
                      Append(st.changes, <<"emotion", emotion_word_choices[c]>>),
                      st.draws + 2) : c \in DOMAIN emotion_word_choices}
        ELSE {st}
  IN IF sentence_indices # {} /\ Cardinality(sentence_indices) > 1
     THEN UNION {{Joined(st) : st \in ForEach(Step, selected, 1, {Working(sentences, <<>>, 1)})} :
                 selected \in Samples(sentence_indices, Min(2, Cardinality(sentence_indices)))}
     ELSE {Outcome(Join(sentences, <<>>), <<>>, 0)}

_add_emotions(t) ==
  LET sentences == SplitKeep(t, {"fw.", "fw!", "fw?"})
      sentence_indices == SentenceIndices(sentences)
      Step(st, idx) ==
        IF idx + 1 <= Len(st.sentences) /\ st.sentences[idx + 1] = <<"fw.">>
        THEN \* random.random() < 0.5 fails, or holds
             {Working(st.sentences, st.changes, st.draws + 1)}
             \cup
             {Working([st.sentences EXCEPT ![idx] = emotion_word_choices[c] \o st.sentences[idx]],
                      Append(st.changes, <<"emotion", emotion_word_choices[c]>>),
                      st.draws + 2) : c \in DOMAIN emotion_word_choices}
        ELSE {st}
  IN IF sentence_indices # {} /\ Cardinality(sentence_indices) > 2
     THEN UNION {{Joined(st) : st \in ForEach(Step, selected, 1, {Working(sentences, <<>>, 1)})} :
                 selected \in Samples(sentence_indices, Min(2, Cardinality(sentence_indices)))}
     ELSE {Outcome(Join(sentences, <<>>), <<>>, 0)}

absolute_words ==
  << <<"yi1", "ding">>, <<"bi", "xu">>, <<"ken", "ding">>, <<"jue2", "dui">> >>  \* 一定 必须 肯定 绝对

_add_uncertainty(t) ==
  LET Step(st, word) ==
        IF Contains(st.text, word)
        THEN ReplaceByChoice(st, word, Prefix(UNCERTAINTY_EXPRESSIONS, 5), "uncertainty", 0)
        ELSE {st}
  IN ForEach(Step, absolute_words, 1, {Outcome(t, <<>>, 0)})

\* mutant: the particle is appended whatever mark ends the sentence
_add_colloquial_expressions_any_mark(t, count) ==
  LET sentences == SplitKeep(t, {"fw.", "fw!", "fw?"})
      sentence_indices == SentenceIndices(sentences)
      markers == Prefix(COLLOQUIAL_MARKERS, 5)
      Step(st, idx) ==
        LET sentence == st.sentences[idx]
        IN IF /\ Len(sentence) > 5
              /\ idx + 1 <= Len(st.sentences)
           THEN {Working([st.sentences EXCEPT ![idx] = sentence \o markers[c]],
                         Append(st.changes, <<"colloquial", markers[c]>>),
                         st.draws + 1) : c \in DOMAIN markers}
           ELSE {st}
  IN IF sentence_indices # {}
     THEN UNION {{Joined(st) : st \in ForEach(Step, selected, 1, {Working(sentences, <<>>, 1)})} :
                 selected \in Samples(sentence_indices, Min(count, Cardinality(sentence_indices)))}
     ELSE {Outcome(Join(sentences, <<>>), <<>>, 0)}

_add_colloquial_expressions(t, count) ==
  LET sentences == SplitKeep(t, {"fw.", "fw!", "fw?"})
      sentence_indices == SentenceIndices(sentences)
      markers == Prefix(COLLOQUIAL_MARKERS, 5)
      Step(st, idx) ==
        LET sentence == st.sentences[idx]
        IN IF /\ Len(sentence) > 5
              /\ idx + 1 <= Len(st.sentences)
              /\ st.sentences[idx + 1] \in {<<"fw.">>, <<"fw!">>}
           THEN {Working([st.sentences EXCEPT ![idx] = sentence \o markers[c]],
                         Append(st.changes, <<"colloquial", markers[c]>>),
                         st.draws + 1) : c \in DOMAIN markers}
           ELSE {st}
  IN IF sentence_indices # {}
     THEN UNION {{Joined(st) : st \in ForEach(Step, selected, 1, {Working(sentences, <<>>, 1)})} :
                 selected \in Samples(sentence_indices, Min(count, Cardinality(sentence_indices)))}
     ELSE {Outcome(Join(sentences, <<>>), <<>>, 0)}

\* the stages each tier runs, in order
LightStages == <<[f |-> "_light_humanize"]>>

_medium_humanize ==
  << [f |-> "_replace_words", ratio |-> 60],
     [f |-> "_adjust_syntax"],
     [f |-> "_add_colloquial_expressions", count |-> 2] >>

\* mutant: heavy leaves out the syntax adjustment pass
_heavy_humanize_without_syntax ==
  << [f |-> "_replace_words", ratio |-> 90],
     [f |-> "_add_personal_expressions"],
     [f |-> "_add_emotions"],
     [f |-> "_add_uncertainty"],
     [f |-> "_add_colloquial_expressions", count |-> 5] >>

\* mutant: heavy runs the colloquial insertion before the certainty softening
_heavy_humanize_colloquial_early ==
  << [f |-> "_replace_words", ratio |-> 90],
     [f |-> "_adjust_syntax"],
     [f |-> "_add_personal_expressions"],
     [f |-> "_add_emotions"],
     [f |-> "_add_colloquial_expressions", count |-> 5],
     [f |-> "_add_uncertainty"] >>

_heavy_humanize ==
  << [f |-> "_replace_words", ratio |-> 90],
     [f |-> "_adjust_syntax"],
     [f |-> "_add_personal_expressions"],
     [f |-> "_add_emotions"],
     [f |-> "_add_uncertainty"],
     [f |-> "_add_colloquial_expressions", count |-> 5] >>

\* the possible outcomes of one stage on the working text t
StageOutcomes(stage, t) ==
  CASE stage.f = "_light_humanize" -> _light_humanize(t)
    [] stage.f = "_replace_words" -> _replace_words(t, stage.ratio)
    [] stage.f = "_adjust_syntax" -> _adjust_syntax(t)
    [] stage.f = "_add_personal_expressions" -> _add_personal_expressions(t)
    [] stage.f = "_add_emotions" -> _add_emotions(t)
    [] stage.f = "_add_uncertainty" -> _add_uncertainty(t)
    [] stage.f = "_add_colloquial_expressions" -> _add_colloquial_expressions(t, stage.count)

ValidIntensities == {"light", "medium", "heavy"}

\* the if / elif chain of humanize
StagesOf(i) ==
  CASE i = "light" -> LightStages
    [] i = "medium" -> _medium_humanize
    [] i = "heavy" -> _heavy_humanize

\* mutant: the stripped text is returned instead of the input
IdentityResult_stripped(t, i) ==
  [text |-> Strip(t), original_length |-> 0, modified_length |-> 0, changes |-> <<>>,
   change_count |-> 0, intensity |-> i]

\* the result humanize returns for an empty or whitespace-only text
IdentityResult(t, i) ==
  [text |-> t, original_length |-> 0, modified_length |-> 0, changes |-> <<>>,
   change_count |-> 0, intensity |-> i]

\* mutant: change_count counts the distinct entries
HumanizeResult_distinct(original_text, t, cs, i) ==
  [text |-> t, original_length |-> Len(original_text), modified_length |-> Len(t),
   changes |-> cs, change_count |-> Cardinality({cs[k] : k \in DOMAIN cs}), intensity |-> i]

\* the result humanize returns after the stages
HumanizeResult(original_text, t, cs, i) ==
  [text |-> t, original_length |-> Len(original_text), modified_length |-> Len(t),
   changes |-> cs, change_count |-> Len(cs), intensity |-> i]

ValueError == [raised |-> "ValueError"]

\* changes.extend(...) after each stage of a tier
RunStages(stages, t) ==
  LET Step(st, stage) ==
        {Outcome(o.text, st.changes \o o.changes, st.draws + o.draws) :
           o \in StageOutcomes(stage, st.text)}
  IN ForEach(Step, stages, 1, {Outcome(t, <<>>, 0)})

\* humanize(text, intensity) as a whole: the results it can return, or ValueError
humanize(t, i) ==
  IF IsBlank(t) THEN {IdentityResult(t, i)}
  ELSE IF i \in ValidIntensities
       THEN {HumanizeResult(t, o.text, o.changes, i) : o \in RunStages(StagesOf(i), t)}
  ELSE {ValueError}

-----------------------------------------------------------------------------
(* Inputs.                                                                 *)

\* every concatenation of at most n of the pieces
RECURSIVE TextsOf(_, _)
TextsOf(pieces, n) ==
  IF n = 0 THEN {<<>>}
  ELSE LET shorter == TextsOf(pieces, n - 1)
       IN shorter \cup {t \o p : t \in shorter, p \in pieces}

\* n times the character c
Run(c, n) == [k \in 1..n |-> c]

w_jinnianlai == <<"jin4b", "nian", "lai">>     \* 近年来
w_tianqihao == <<"tian", "qi4", "hao">>        \* 天气好
w_yiding == <<"yi1", "ding">>                  \* 一定

MaxDetectPieces == 3

DetectPieces ==
  { w_jinnianlai, w_shouxian, w_zhongyao, w_wo, w_kaixin, w_tianqihao,
    <<"fw.">>, <<"fw,">>, <<"LF">>,
    w_juyouzhongyaoyiyi \o <<"fw.">> }

\* 近年来重要天天天天天天，天天天天，天天天天！我天天天天天天，天天天天天。
\* 其次天天天天天，天天天天！具有重要意义。
RoundingText ==
  w_jinnianlai \o w_zhongyao \o Run("tian", 6) \o <<"fw,">> \o Run("tian", 4) \o <<"fw,">>
  \o Run("tian", 4) \o <<"fw!">> \o w_wo \o Run("tian", 6) \o <<"fw,">> \o Run("tian", 5)
  \o <<"fw.">> \o w_qici \o Run("tian", 5) \o <<"fw,">> \o Run("tian", 4) \o <<"fw!">>
  \o w_juyouzhongyaoyiyi \o <<"fw.">>

\* n times the word w
Rep(w, n) == [k \in 1..(n * Len(w)) |-> w[((k - 1) % Len(w)) + 1]]

\* the lines of ls, joined by line feeds
JoinLines(ls) ==
  Concat([j \in 1..(2 * Len(ls) - 1) |->
            IF j % 2 = 0 THEN <<"LF">> ELSE ls[(j + 1) \div 2]],
         1, 2 * Len(ls) - 1)

\* 28 lines without any opening, closing or list wording:
\* 既天天又天天, 3 lines 天天，天天，天天, 4 lines 相对重要, 7 lines 重要重要
\* and 13 lines 重要重要天
NaturalEdgeText ==
  JoinLines([k \in 1..28 |->
    IF k = 1 THEN <<"ji4", "tian", "tian", "you4", "tian", "tian">>
    ELSE IF k <= 4 THEN <<"tian", "tian", "fw,", "tian", "tian", "fw,", "tian", "tian">>
    ELSE IF k <= 8 THEN w_xiangdui \o w_zhongyao
    ELSE IF k <= 15 THEN Rep(w_zhongyao, 2)
    ELSE Rep(w_zhongyao, 2) \o <<"tian">>])

\* 我, 33 times 天, 开心: 35 tokens, one of them first person and one an
\* emotion word
SemanticRoundingText == w_wo \o Run("tian", 33) \o w_kaixin

DetectTexts ==
  TextsOf(DetectPieces, MaxDetectPieces)
  \cup { <<"SP">>, <<"SP", "LF", "TAB">>, <<"SP">> \o w_wo \o <<"SP">>, RoundingText,
         NaturalEdgeText, SemanticRoundingText }

Intensities == {"light", "medium", "heavy", "invalid"}

MaxHumanizePieces == 3

HumanizePieces ==
  { w_zhongyao, w_shouxian, w_qici, w_yiding, w_tianqihao, <<"fw.">>, <<"fw!">>, <<"SP">> }

\* texts with several words of the light tier, one of them twice, and a
\* connector that has a replacement but is not a word of the light tier
LightTexts ==
  { w_youxiao \o w_zhongyao \o w_youxiao \o <<"fw.">>,        \* 有效重要有效。
    w_shouxian \o w_xianeryijian \o w_zhongyao \o w_zhongyao }  \* 首先显而易见重要重要

HumanizeTexts == TextsOf(HumanizePieces, MaxHumanizePieces) \cup LightTexts

\* texts for the syntax adjustment pass, run with intensity medium:
\* 不仅天气好而且天气好。
\* 天，天，(25 times 天)，(25 times 天)。       one unit of 56 characters
\* (24)，(24)。(24)，(25)！                    units of 50 and 51 characters
\* (25)，(24)？(25)，(25)                      units of 51 and 51 characters
\* (51 times 天)。                               a unit of 52 characters, no comma
SyntaxTexts ==
  { w_bujin \o w_tianqihao \o w_erqie \o w_tianqihao \o <<"fw.">>,
    <<"tian", "fw,", "tian", "fw,">> \o Run("tian", 25) \o <<"fw,">> \o Run("tian", 25)
      \o <<"fw.">>,
    Run("tian", 24) \o <<"fw,">> \o Run("tian", 24) \o <<"fw.">>
      \o Run("tian", 24) \o <<"fw,">> \o Run("tian", 25) \o <<"fw!">>,
    Run("tian", 25) \o <<"fw,">> \o Run("tian", 24) \o <<"fw?">>
      \o Run("tian", 25) \o <<"fw,">> \o Run("tian", 25),
    Run("tian", 51) \o <<"fw.">> }

\* texts of several sentence units, run with intensity medium and heavy:
\* 天气好天气好。天气好天气好！天气好天气好？天气好。天气好天气好。
\* 天。天天！天气好。
\* 天气好。天气好。天气好
\* 天。天。天。天。
\* 天气好 / 天气好天气好天气好天气好。一定    (two lines)
UnitTexts ==
  { Rep(w_tianqihao, 2) \o <<"fw.">> \o Rep(w_tianqihao, 2) \o <<"fw!">>
      \o Rep(w_tianqihao, 2) \o <<"fw?">> \o w_tianqihao \o <<"fw.">>
      \o Rep(w_tianqihao, 2) \o <<"fw.">>,
    <<"tian", "fw.", "tian", "tian", "fw!">> \o w_tianqihao \o <<"fw.">>,
    w_tianqihao \o <<"fw.">> \o w_tianqihao \o <<"fw.">> \o w_tianqihao,
    <<"tian", "fw.", "tian", "fw.", "tian", "fw.", "tian", "fw.">>,
    w_tianqihao \o <<"LF">> \o Rep(w_tianqihao, 4) \o <<"fw.">> \o w_yiding }

\* six units 天天天天天天！, run with intensity heavy
SixUnitsText == Rep(Run("tian", 6) \o <<"fw!">>, 6)

\* the (text, intensity) arguments of humanize
HumanizeInputs ==
  (HumanizeTexts \X Intensities)
  \cup (SyntaxTexts \X {"medium"})
  \cup (UnitTexts \X {"medium", "heavy"})
  \cup ({SixUnitsText} \X {"heavy"})

MaxBatch == 2

BatchItems == { <<>>, <<"SP">>, w_zhongyao \o <<"fw.">>, w_shouxian \o w_tianqihao \o w_tianqihao \o <<"fw.">> }

BatchTexts == UNION {[1..n -> BatchItems] : n \in 0..MaxBatch}

\* dimension scores (hundredths) handed to _generate_summary: the band
\* thresholds, their neighbours and the ends of the range; a structural score
\* is a sum of 30, 30, 8 per list indicator and 20, held at 100
SummaryScores == {0, 1999, 2000, 4000, 5999, 6000, 7999, 8000, 10000}
SummaryStructuralScores == {0, 800, 2000, 6000, 8000, 10000}
SummaryArgs ==
  {[total_score |-> TotalScore([score |-> l], [score |-> y], [score |-> u], [score |-> m]),
    lexical |-> [score |-> l], syntactic |-> [score |-> y],
    structural |-> [score |-> u], semantic |-> [score |-> m]] :
     l \in SummaryScores, y \in SummaryScores, u \in SummaryStructuralScores,
     m \in SummaryScores}

-----------------------------------------------------------------------------
(* The calls.                                                              *)

\* the data every call shares: the word lists of rules/ai_keywords.py and
\* rules/replacements.py, the compiled pattern lists of rules/patterns.py and
\* self.replacements of the humanizer.  No statement of detector.py or
\* humanizer.py assigns to any of them after they are built.
RuleData ==
  [AI_HIGH_FREQ_WORDS |-> AI_HIGH_FREQ_WORDS,
   AI_CONNECTORS |-> AI_CONNECTORS,
   AI_FORMAL_WORDS |-> AI_FORMAL_WORDS,
   AI_QUALIFIERS |-> AI_QUALIFIERS,
   AI_FIXED_PHRASES |-> AI_FIXED_PHRASES,
   EMOTION_WORDS |-> EMOTION_WORDS,
   FIRST_PERSON_EXPRESSIONS |-> FIRST_PERSON_EXPRESSIONS,
   UNCERTAINTY_EXPRESSIONS |-> UNCERTAINTY_EXPRESSIONS,
   COLLOQUIAL_MARKERS |-> COLLOQUIAL_MARKERS,
   replacements |-> WORD_REPLACEMENTS,
   COMPILED_FIXED_PATTERNS |-> FIXED_SENTENCE_PATTERNS,
   COMPILED_PARALLEL_PATTERNS |-> PARALLEL_PATTERNS,
   COMPILED_SUMMARY_PATTERNS |-> SUMMARY_DETAIL_PATTERNS,
   COMPILED_LIST_PATTERNS |-> LIST_PATTERNS,
   COMPILED_OPENING_PATTERNS |-> AI_OPENING_PATTERNS,
   COMPILED_CLOSING_PATTERNS |-> AI_CLOSING_PATTERNS]

\* the variables a specification does not use keep these values
NoCalls == <<>>

InitDetect ==
  /\ op = "detect"
  /\ pc = "call"
  /\ text \in DetectTexts
  /\ intensity = "medium"
  /\ work = <<>> /\ changes = <<>> /\ todo = <<>> /\ ran = <<>>
  /\ rngDraws = 0
  /\ result = NoResult
  /\ texts = <<>> /\ results = <<>>
  /\ args = NoResult /\ shared = RuleData /\ calls = NoCalls

InitHumanize ==
  /\ op = "humanize"
  /\ pc = "call"
  /\ \E input \in HumanizeInputs : text = input[1] /\ intensity = input[2]
  /\ work = <<>> /\ changes = <<>> /\ todo = <<>> /\ ran = <<>>
  /\ rngDraws = 0
  /\ result = NoResult
  /\ texts = <<>> /\ results = <<>>
  /\ args = NoResult /\ shared = RuleData /\ calls = NoCalls

InitBatch ==
  /\ op = "batch_humanize"
  /\ pc = "batch_call"
  /\ texts \in BatchTexts
  /\ intensity \in Intensities
  /\ text = <<>>
  /\ work = <<>> /\ changes = <<>> /\ todo = <<>> /\ ran = <<>>
  /\ rngDraws = 0
  /\ result = NoResult
  /\ results = <<>>
  /\ args = NoResult /\ shared = RuleData /\ calls = NoCalls

InitSummary ==
  /\ op = "_generate_summary"
  /\ pc = "call"
  /\ args \in SummaryArgs
  /\ text = <<>> /\ intensity = "medium"
  /\ work = <<>> /\ changes = <<>> /\ todo = <<>> /\ ran = <<>>
  /\ rngDraws = 0
  /\ result = NoResult
  /\ texts = <<>> /\ results = <<>>
  /\ shared = RuleData /\ calls = NoCalls

\* _generate_summary(total_score, lexical, syntactic, structural, semantic) returns
GenerateSummary ==
  /\ op = "_generate_summary"
  /\ pc = "call"
  /\ result' = _generate_summary(args.total_score, args.lexical, args.syntactic,
                                 args.structural, args.semantic)
  /\ pc' = "done"
  /\ UNCHANGED <<op, text, intensity, work, changes, todo, ran, rngDraws, texts, results,
                 args, shared, calls>>

\* detect(text) returns
Detect ==
  /\ op = "detect"
  /\ pc = "call"
  /\ result' = detect(text)
  /\ pc' = "done"
  /\ UNCHANGED <<op, text, intensity, work, changes, todo, ran, rngDraws, texts, results, args, shared, calls>>

\* generate_report(result) is called with the result detect has returned
GenerateReport ==
  /\ op = "detect"
  /\ pc = "done"
  /\ op' = "generate_report"
  /\ args' = result
  /\ result' = generate_report(result)
  /\ pc' = IF "raised" \in DOMAIN result' THEN "raised" ELSE "done"
  /\ UNCHANGED <<text, intensity, work, changes, todo, ran, rngDraws, texts, results,
                 shared, calls>>

\* where a call of humanize returns to: its caller, or the loop of batch_humanize
ReturnPc == IF op = "batch_humanize" THEN "item_done" ELSE "done"

\* mutant: an unrecognized intensity falls back to the default tier, medium
HumanizeCall_default_medium ==
  /\ op \in {"humanize", "batch_humanize"}
  /\ pc = "call"
  /\ IF IsBlank(text)
     THEN /\ result' = IdentityResult(text, intensity)
          /\ pc' = ReturnPc
          /\ UNCHANGED <<work, changes, todo, ran>>
     ELSE /\ work' = text
          /\ changes' = <<>>
          /\ ran' = <<>>
          /\ todo' = IF intensity \in ValidIntensities THEN StagesOf(intensity)
                     ELSE _medium_humanize
          /\ pc' = "stage"
          /\ UNCHANGED result
  /\ UNCHANGED <<op, text, intensity, rngDraws, texts, results, args, shared, calls>>

\* mutant: the word substitution pass runs before the intensity is looked at
HumanizeCall_late_check ==
  /\ op \in {"humanize", "batch_humanize"}
  /\ pc = "call"
  /\ IF IsBlank(text)
     THEN /\ result' = IdentityResult(text, intensity)
          /\ pc' = ReturnPc
          /\ UNCHANGED <<work, changes, todo, ran, rngDraws>>
     ELSE IF intensity \in ValidIntensities
     THEN /\ work' = text
          /\ changes' = <<>>
          /\ ran' = <<>>
          /\ todo' = StagesOf(intensity)
          /\ pc' = "stage"
          /\ UNCHANGED <<result, rngDraws>>
     ELSE /\ \E o \in _replace_words(text, 60) :
               /\ work' = o.text
               /\ changes' = o.changes
               /\ rngDraws' = rngDraws + o.draws
          /\ ran' = <<"_replace_words">>
          /\ todo' = <<>>
          /\ pc' = "raised"
          /\ UNCHANGED result
  /\ UNCHANGED <<op, text, intensity, texts, results, args, shared, calls>>

\* humanize(text, intensity) is entered: the empty-text return, original_text
\* and changes are set, and the if / elif chain picks the tier or raises
HumanizeCall ==
  /\ op \in {"humanize", "batch_humanize"}
  /\ pc = "call"
  /\ IF IsBlank(text)
     THEN /\ result' = IdentityResult(text, intensity)
          /\ pc' = ReturnPc
          /\ UNCHANGED <<work, changes, todo, ran>>
     ELSE /\ work' = text
          /\ changes' = <<>>
          /\ ran' = <<>>
          /\ IF intensity \in ValidIntensities
             THEN todo' = StagesOf(intensity) /\ pc' = "stage"
             ELSE todo' = <<>> /\ pc' = "raised"
          /\ UNCHANGED result
  /\ UNCHANGED <<op, text, intensity, rngDraws, texts, results, args, shared, calls>>

\* the next stage of the tier runs: text, change_list = stage(text); changes.extend
RunStage ==
  /\ pc = "stage"
  /\ todo # <<>>
  /\ \E o \in StageOutcomes(Head(todo), work) :
       /\ work' = o.text
       /\ changes' = changes \o o.changes
       /\ rngDraws' = rngDraws + o.draws
  /\ ran' = Append(ran, Head(todo).f)
  /\ todo' = Tail(todo)
  /\ UNCHANGED <<pc, op, text, intensity, result, texts, results, args, shared, calls>>

\* humanize returns its result
HumanizeReturn ==
  /\ pc = "stage"
  /\ todo = <<>>
  /\ result' = HumanizeResult(text, work, changes, intensity)
  /\ pc' = ReturnPc
  /\ UNCHANGED <<op, text, intensity, work, changes, todo, ran, rngDraws, texts, results, args, shared, calls>>

\* mutant: the intensity is validated once, before the loop
BatchCall_validating ==
  /\ op = "batch_humanize"
  /\ pc = "batch_call"
  /\ results' = <<>>
  /\ IF intensity \notin ValidIntensities
     THEN pc' = "raised" /\ UNCHANGED <<text, result>>
     ELSE IF Len(texts) > 0
     THEN text' = texts[1] /\ pc' = "call" /\ UNCHANGED result
     ELSE result' = <<>> /\ pc' = "done" /\ UNCHANGED text
  /\ UNCHANGED <<op, intensity, work, changes, todo, ran, rngDraws, texts, args, shared, calls>>

\* batch_humanize(texts, intensity) is entered: results = [], then the first
\* text of the loop, or return results at once
BatchCall ==
  /\ op = "batch_humanize"
  /\ pc = "batch_call"
  /\ results' = <<>>
  /\ IF Len(texts) > 0
     THEN text' = texts[1] /\ pc' = "call" /\ UNCHANGED result
     ELSE result' = <<>> /\ pc' = "done" /\ UNCHANGED text
  /\ UNCHANGED <<op, intensity, work, changes, todo, ran, rngDraws, texts, args, shared, calls>>

\* mutant: the result is put at the front of results
BatchAppend_reversed ==
  /\ op = "batch_humanize"
  /\ pc = "item_done"
  /\ results' = <<result>> \o results
  /\ IF Len(results') < Len(texts)
     THEN text' = texts[Len(results') + 1] /\ pc' = "call" /\ UNCHANGED result
     ELSE result' = results' /\ pc' = "done" /\ UNCHANGED text
  /\ UNCHANGED <<op, intensity, work, changes, todo, ran, rngDraws, texts, args, shared, calls>>

\* results.append(result), then the next text of the loop, or return results
BatchAppend ==
  /\ op = "batch_humanize"
  /\ pc = "item_done"
  /\ results' = Append(results, result)
  /\ IF Len(results') < Len(texts)
     THEN text' = texts[Len(results') + 1] /\ pc' = "call" /\ UNCHANGED result
     ELSE result' = results' /\ pc' = "done" /\ UNCHANGED text
  /\ UNCHANGED <<op, intensity, work, changes, todo, ran, rngDraws, texts, args, shared, calls>>

NextHumanize == HumanizeCall \/ RunStage \/ HumanizeReturn

NextBatch == BatchCall \/ HumanizeCall \/ RunStage \/ HumanizeReturn \/ BatchAppend

NextReport == Detect \/ GenerateReport

SpecDetect == InitDetect /\ [][Detect]_vars
SpecReport == InitDetect /\ [][NextReport]_vars
SpecSummary == InitSummary /\ [][GenerateSummary]_vars
SpecHumanize == InitHumanize /\ [][NextHumanize]_vars
SpecBatch == InitBatch /\ [][NextBatch]_vars

-----------------------------------------------------------------------------
(* Repeated calls of detect on one AIDetector.                             *)

MaxCalls == 3

RepeatTexts ==
  { <<>>, w_zhongyao, w_wo \o w_kaixin, w_jinnianlai \o w_zhongyao \o <<"fw.">>,
    w_juyouzhongyaoyiyi \o <<"fw.">>,
    w_jinnianlai \o w_zhongyao \o <<"fw,">> \o w_shouxian \o w_wo \o <<"fw.">> }

\* mutant: detect appends the text to the module-level list of fixed phrases,
\* and reports is_ai once the list has grown
DetectCall_learning(state, t) ==
  [result |-> [detect(t) EXCEPT
                 !.is_ai = @ \/ Len(state.AI_FIXED_PHRASES) > Len(AI_FIXED_PHRASES)],
   state |-> [state EXCEPT !.AI_FIXED_PHRASES = Append(@, t)]]

\* one call detect(t) on a detector in the given state: the value returned and
\* the state left behind.  detect and the analyses it calls read the rule
\* tables, assign to no attribute of self, rebind no module-level name and
\* call no mutating method on a module-level list; the lists they extend
\* (fixed_patterns, parallel_patterns, matches, report lines) are locals of
\* the call.
DetectCall(state, t) == [result |-> detect(t), state |-> state]

InitRepeat ==
  /\ op = "detect"
  /\ pc = "call"
  /\ text = <<>> /\ intensity = "medium"
  /\ work = <<>> /\ changes = <<>> /\ todo = <<>> /\ ran = <<>>
  /\ rngDraws = 0
  /\ result = NoResult
  /\ texts = <<>> /\ results = <<>>
  /\ args = NoResult /\ shared = RuleData /\ calls = NoCalls

\* detect(t) is called on the same detector and returns; calls logs the
\* finished calls in order
DetectAgain ==
  /\ op = "detect"
  /\ Len(calls) < MaxCalls
  /\ \E t \in RepeatTexts :
       \E c \in {DetectCall(shared, t)} :
          /\ text' = t
          /\ result' = c.result
          /\ shared' = c.state
          /\ calls' = Append(calls, [text |-> t, result |-> c.result])
  /\ pc' = "done"
  /\ UNCHANGED <<op, intensity, work, changes, todo, ran, rngDraws, texts, results, args>>

SpecRepeat == InitRepeat /\ [][DetectAgain]_vars

-----------------------------------------------------------------------------
(* Interleaved invocations of detect and humanize on one detector and one  *)
(* humanizer.  calls[i] holds the arguments, the position and the local    *)
(* variables of invocation i; the random module and the rule tables are    *)
(* shared.                                                                 *)

ConcurrentTexts ==
  { w_zhongyao \o <<"fw.">>,                              \* 重要。
    w_shouxian \o w_youxiao \o <<"fw!">>,                 \* 首先有效！
    w_yiding \o w_tianqihao }                             \* 一定天气好

Invocation(o, t, i) ==
  [op |-> o, text |-> t, intensity |-> i, pc |-> "call",
   work |-> <<>>, changes |-> <<>>, todo |-> <<>>, done |-> <<>>, result |-> NoResult]

Invocations ==
  {Invocation("detect", t, "medium") : t \in ConcurrentTexts}
  \cup {Invocation("humanize", t, i) : t \in ConcurrentTexts, i \in ValidIntensities}

\* mutant: the working text is kept in an attribute of the humanizer, which
\* the invocation that ran a stage last has written
WorkingText_attribute(cs, i) ==
  IF \E j \in DOMAIN cs : j # i /\ cs[j].work # <<>>
  THEN cs[CHOOSE j \in DOMAIN cs : j # i /\ cs[j].work # <<>>].work
  ELSE cs[i].work

\* the working text of invocation i: the parameter text of humanize, rebound
\* by every stage, a local variable of the call
WorkingText(cs, i) == cs[i].work

InitConcurrent ==
  /\ op = "concurrent"
  /\ pc = "call"
  /\ text = <<>> /\ intensity = "medium"
  /\ work = <<>> /\ changes = <<>> /\ todo = <<>> /\ ran = <<>>
  /\ rngDraws = 0
  /\ result = NoResult
  /\ texts = <<>> /\ results = <<>>
  /\ args = NoResult /\ shared = RuleData
  /\ calls \in {cs \in Invocations \X Invocations : cs[1].text # cs[2].text}

\* invocation i of detect returns
ConcurrentDetect(i) ==
  /\ calls[i].op = "detect"
  /\ calls[i].pc = "call"
  /\ calls' = [calls EXCEPT ![i].result = detect(calls[i].text), ![i].pc = "done"]
  /\ UNCHANGED <<pc, op, text, intensity, work, changes, todo, ran, rngDraws, result,
                 texts, results, args, shared>>

\* invocation i of humanize is entered
ConcurrentHumanizeCall(i) ==
  /\ calls[i].op = "humanize"
  /\ calls[i].pc = "call"
  /\ calls' =
       IF IsBlank(calls[i].text)
       THEN [calls EXCEPT ![i].result = IdentityResult(calls[i].text, calls[i].intensity),
                          ![i].pc = "done"]
       ELSE IF calls[i].intensity \in ValidIntensities
       THEN [calls EXCEPT ![i].work = calls[i].text,
                          ![i].changes = <<>>,
                          ![i].todo = StagesOf(calls[i].intensity),
                          ![i].pc = "stage"]
       ELSE [calls EXCEPT ![i].work = calls[i].text, ![i].changes = <<>>, ![i].pc = "raised"]
  /\ UNCHANGED <<pc, op, text, intensity, work, changes, todo, ran, rngDraws, result,
                 texts, results, args, shared>>

\* the next stage of invocation i runs and draws from the shared random module
ConcurrentRunStage(i) ==
  /\ calls[i].pc = "stage"
  /\ calls[i].todo # <<>>
  /\ \E o \in StageOutcomes(Head(calls[i].todo), WorkingText(calls, i)) :
       /\ calls' = [calls EXCEPT ![i].work = o.text,
                                 ![i].changes = @ \o o.changes,
                                 ![i].done = Append(@, Head(calls[i].todo)),
                                 ![i].todo = Tail(@)]
       /\ rngDraws' = rngDraws + o.draws
  /\ UNCHANGED <<pc, op, text, intensity, work, changes, todo, ran, result,
                 texts, results, args, shared>>

\* invocation i of humanize returns its result
ConcurrentHumanizeReturn(i) ==
  /\ calls[i].pc = "stage"
  /\ calls[i].todo = <<>>
  /\ calls' = [calls EXCEPT
                 ![i].result = HumanizeResult(calls[i].text, WorkingText(calls, i),
                                              calls[i].changes, calls[i].intensity),
                 ![i].pc = "done"]
  /\ UNCHANGED <<pc, op, text, intensity, work, changes, todo, ran, rngDraws, result,
                 texts, results, args, shared>>

NextConcurrent ==
  \E i \in DOMAIN calls :
    \/ ConcurrentDetect(i)
    \/ ConcurrentHumanizeCall(i)
    \/ ConcurrentRunStage(i)
    \/ ConcurrentHumanizeReturn(i)

SpecConcurrent == InitConcurrent /\ [][NextConcurrent]_vars

-----------------------------------------------------------------------------
(* Properties of detect, stated for SpecDetect.                            *)

Dimensions == {"lexical", "syntactic", "structural", "semantic"}

\* C1: for every text, the total score detect returns and each of the four
\* dimension scores lie in [0, 100] (0..10000 hundredths); a text that is
\* not blank has all four dimension scores.
C1_ScoresInRange ==
  pc = "done" =>
    /\ result.score \in 0..10000
    /\ ~IsBlank(text) => DOMAIN result.details = Dimensions
    /\ \A d \in DOMAIN result.details : result.details[d].score \in 0..10000

\* a text whose lexical score is held at 100 by the clamp
C1_Witness ==
  /\ pc = "done"
  /\ ~IsBlank(text)
  /\ result.details.lexical.score = 10000
  /\ result.score > 0

\* C2, as stated: the confidence equals the returned score divided by 100
\* (score in hundredths times 100 is score / 100 in millionths).
C2_ConfidenceIsScoreOver100 ==
  pc = "done" => result.confidence = result.score * 100

\* C2, amended: the confidence equals the returned score divided by 100 up to
\* the rounding of the score to two decimals: they differ by at most 0.00005,
\* and the score is the confidence times 100 rounded to two decimals.
C2_ConfidenceWithinRounding ==
  pc = "done" =>
    /\ result.confidence - result.score * 100 \in -50..50
    /\ result.score = Round2(Frac(result.confidence, 10000))

\* a result whose score was changed by the rounding
C2_Witness ==
  /\ pc = "done"
  /\ result.confidence # result.score * 100

\* C3, as stated: for a text that is not empty, is_ai is true exactly when the
\* returned score is at least 60.
C3_IsAiIffScoreAtLeast60 ==
  (pc = "done" /\ text # <<>> /\ ~IsBlank(text)) =>
    (result.is_ai <=> result.score >= 6000)

\* C3, amended: for a text that is not blank, is_ai is true exactly when the
\* unrounded total (100 times the confidence) is at least 60; the returned
\* score is at least 60 whenever is_ai is true, and is_ai is true whenever the
\* returned score exceeds 60.
C3_IsAiIffTotalAtLeast60 ==
  (pc = "done" /\ ~IsBlank(text)) =>
    /\ result.is_ai <=> result.confidence >= 600000
    /\ result.is_ai => result.score >= 6000
    /\ result.score > 6000 => result.is_ai

\* detect has returned is_ai true for a text that is not blank
C3_Witness ==
  /\ pc = "done"
  /\ ~IsBlank(text)
  /\ result.is_ai
  /\ result.score >= 6000

\* C4, as stated: detect of an empty or whitespace-only text returns (it never
\* raises) score 0, confidence 0, is_ai false and, for each of the four
\* dimensions, an empty detail map.
C4_BlankTextEmptyMapPerDimension ==
  /\ pc \in {"call", "done"}
  /\ (pc = "done" /\ \A k \in DOMAIN text : text[k] \in Whitespace) =>
       /\ result.score = 0
       /\ result.confidence = 0
       /\ result.is_ai = FALSE
       /\ \A d \in Dimensions :
            d \in DOMAIN result.details /\ result.details[d].details = EmptyDict

\* C4, amended: detect of an empty or whitespace-only text returns (it never
\* raises) score 0, confidence 0, is_ai false, text_length 0 and a details map
\* that is itself empty: it has no entry, hence no score and no detail map,
\* for any of the four dimensions, and the result has no summary.
C4_BlankTextZeroResult ==
  /\ pc \in {"call", "done"}
  /\ (pc = "done" /\ \A k \in DOMAIN text : text[k] \in Whitespace) =>
       /\ result.score = 0
       /\ result.confidence = 0
       /\ result.is_ai = FALSE
       /\ result.details = EmptyDict
       /\ result.text_length = 0
       /\ "summary" \notin DOMAIN result

\* detect has returned for a whitespace-only text
C4_Witness ==
  /\ pc = "done"
  /\ Len(text) > 0
  /\ \A k \in DOMAIN text : text[k] \in Whitespace

-----------------------------------------------------------------------------
(* Properties of humanize, stated for SpecHumanize.                        *)

\* C5, as stated: with an intensity outside {light, medium, heavy}, humanize
\* fails with ValueError whatever the text is.
C5_InvalidIntensityAlwaysRaises ==
  (pc \in {"done", "raised"} /\ intensity \notin ValidIntensities) => pc = "raised"

\* C5, amended: with an intensity outside {light, medium, heavy}, humanize
\* fails with ValueError for every text that is not empty or whitespace-only:
\* it runs no stage and returns no result.
C5_InvalidIntensityRaisesUnlessBlank ==
  (intensity \notin ValidIntensities /\ ~IsBlank(text)) =>
    /\ pc \in {"call", "raised"}
    /\ result = NoResult

\* humanize has raised
C5_Witness ==
  /\ pc = "raised"
  /\ intensity \notin ValidIntensities
  /\ ~IsBlank(text)

\* C6: when humanize fails because of the intensity, no stage has run: the
\* working text is the input, the change log is empty and the random module
\* has not been called.
C6_NothingRunBeforeRaise ==
  pc = "raised" =>
    /\ ran = <<>>
    /\ work = text
    /\ changes = <<>>
    /\ rngDraws = 0

\* humanize has raised on a text the word substitution pass would rewrite
C6_Witness ==
  /\ pc = "raised"
  /\ \E o \in _replace_words(text, 60) : o.text # text /\ o.draws > 0

\* C7: for an empty or whitespace-only text humanize returns the identity
\* result (the input text, no changes, change_count 0) for every intensity,
\* valid or not, and runs no stage.
C7_BlankTextIdentity ==
  IsBlank(text) =>
    /\ pc \in {"call", "done"}
    /\ pc = "done" =>
         /\ result.text = text
         /\ result.changes = <<>>
         /\ result.change_count = 0
         /\ ran = <<>>
         /\ rngDraws = 0

\* humanize has returned for a whitespace-only text and an invalid intensity
C7_Witness ==
  /\ pc = "done"
  /\ IsBlank(text)
  /\ Len(text) > 0
  /\ intensity \notin ValidIntensities

\* C8: in every result humanize returns, change_count is the number of
\* entries of changes.
C8_ChangeCountIsLength ==
  pc = "done" => result.change_count = Len(result.changes)

\* a result with several changes, two of them equal
C8_Witness ==
  /\ pc = "done"
  /\ intensity \in ValidIntensities
  /\ Len(result.changes) >= 2
  /\ \E j, k \in DOMAIN result.changes : j # k /\ result.changes[j] = result.changes[k]

-----------------------------------------------------------------------------
(* Properties of batch_humanize, stated for SpecBatch.                     *)

\* C9, as stated: a batch either succeeds for every item or fails for every
\* item alike, and a failure is raised before any item has been processed.
C9_FailsBeforeAnyItem ==
  pc = "raised" =>
    /\ results = <<>>
    /\ \A k \in DOMAIN texts : humanize(texts[k], intensity) = {ValueError}

\* C9, amended: a batch either returns one result per item or fails with
\* ValueError.  It fails exactly when the intensity is unrecognized and some
\* text is not blank, at the first such text: the blank texts before it have
\* been processed (each has its identity result), and no stage has run, no
\* change is recorded and the random module has not been called.
C9_FailsAtFirstNonBlankItem ==
  /\ pc = "raised" =>
       /\ intensity \notin ValidIntensities
       /\ Len(results) < Len(texts)
       /\ text = texts[Len(results) + 1]
       /\ ~IsBlank(text)
       /\ \A k \in DOMAIN results :
            IsBlank(texts[k]) /\ results[k] = IdentityResult(texts[k], intensity)
       /\ ran = <<>> /\ changes = <<>> /\ rngDraws = 0
  /\ pc = "done" =>
       /\ Len(result) = Len(texts)
       /\ intensity \in ValidIntensities \/ \A k \in DOMAIN texts : IsBlank(texts[k])

\* a batch that failed after it had processed an item
C9_Witness ==
  /\ pc = "raised"
  /\ Len(results) > 0

\* C10: with a valid intensity, batch_humanize returns one result per text, in
\* the order of the texts, and the i-th result is one humanize(texts[i],
\* intensity) can return on its own.
C10_BatchIsItemwise ==
  (pc = "done" /\ intensity \in ValidIntensities) =>
    /\ Len(result) = Len(texts)
    /\ \A k \in DOMAIN texts : result[k] \in humanize(texts[k], intensity)

\* a batch of two different texts, both rewritten
C10_Witness ==
  /\ pc = "done"
  /\ intensity \in ValidIntensities
  /\ Len(texts) = 2
  /\ texts[1] # texts[2]
  /\ \A k \in 1..2 : result[k].change_count > 0

-----------------------------------------------------------------------------
(* Properties of generate_report, stated for SpecReport.                   *)

\* C11: generate_report returns a report, and raises no error, for every
\* result detect can return.
C11_ReportNeverRaises ==
  op = "generate_report" =>
    /\ pc = "done"
    /\ "lines" \in DOMAIN result

\* generate_report has raised KeyError on the result of detect
C11_ReportRaised ==
  /\ op = "generate_report"
  /\ pc = "raised"
  /\ result.raised = "KeyError"

-----------------------------------------------------------------------------
(* Properties of the detail fields of detect, stated for SpecDetect.       *)

CountFields ==
  [lexical |-> {"high_freq_words", "connectors", "formal_words", "qualifiers",
                "fixed_phrases"},
   syntactic |-> {"sentence_count", "fixed_patterns", "parallel_patterns",
                  "list_patterns", "too_long_sentences", "too_short_sentences"},
   structural |-> {"paragraph_count", "list_structure_count"},
   semantic |-> {"qualifier_count", "emotion_count", "first_person_count"}]

RatioFields ==
  [lexical |-> {"high_freq_ratio", "connector_ratio", "formal_ratio"},
   syntactic |-> {},
   structural |-> {},
   semantic |-> {"emotion_ratio", "first_person_ratio"}]

WeightedSumOfReported(r) ==
  Round2(Frac(30 * r.details.lexical.score + 25 * r.details.syntactic.score
              + 25 * r.details.structural.score + 20 * r.details.semantic.score,
              10000))

\* C13, as stated: for every non-empty text, the returned score is
\* 0.30 lexical + 0.25 syntactic + 0.25 structural + 0.20 semantic of the four
\* dimension scores reported in the same result, rounded to two decimals.
C13_ScoreIsWeightedSumIfNonEmpty ==
  (pc = "done" /\ text # <<>>) =>
    /\ DOMAIN result.details = Dimensions
    /\ result.score = WeightedSumOfReported(result)

\* C13, amended: the same for every text that is not empty or whitespace-only;
\* for an empty or whitespace-only text the score is 0 and the result reports
\* no dimension score to compute it from.
C13_ScoreIsWeightedSum ==
  pc = "done" =>
    IF \A k \in DOMAIN text : text[k] \in Whitespace
    THEN result.score = 0 /\ DOMAIN result.details = {}
    ELSE /\ DOMAIN result.details = Dimensions
         /\ result.score = WeightedSumOfReported(result)

\* a result with four different positive dimension scores whose weighted sum
\* is not a multiple of 0.01
C13_Witness ==
  /\ pc = "done"
  /\ DOMAIN result.details = Dimensions
  /\ \A d \in Dimensions : result.details[d].score > 0
  /\ Cardinality({result.details[d].score : d \in Dimensions}) = 4
  /\ result.confidence # result.score * 100

-----------------------------------------------------------------------------
(* Properties of _generate_summary, stated for SpecSummary.                *)

ConclusionOfLevel ==
  [l \in {"very high", "high", "medium", "low", "very low"} |->
     CASE l = "very high" -> "very evident AI features"
       [] l = "high" -> "probably AI generated"
       [] l = "medium" -> "some AI features"
       [] l = "low" -> "few AI features"
       [] l = "very low" -> "natural, almost no AI features"]

\* C14: the summary maps the total score to exactly one of five ordered bands
\* with thresholds 80, 60, 40 and 20 (total >= 80 very high, 60 <= total < 80
\* high, 40 <= total < 60 medium, 20 <= total < 40 low, total < 20 very low),
\* and each band carries its own fixed conclusion string.
C14_FiveBands ==
  (op = "_generate_summary" /\ pc = "done") =>
    LET total == args.total_score
    IN /\ result.level \in DOMAIN ConclusionOfLevel
       /\ result.level = "very high" <=> total >= 800000
       /\ result.level = "high" <=> (600000 <= total /\ total < 800000)
       /\ result.level = "medium" <=> (400000 <= total /\ total < 600000)
       /\ result.level = "low" <=> (200000 <= total /\ total < 400000)
       /\ result.level = "very low" <=> total < 200000
       /\ result.conclusion = ConclusionOfLevel[result.level]

\* a total of exactly 60, which falls in the band "high"
C14_Witness ==
  /\ op = "_generate_summary"
  /\ pc = "done"
  /\ args.total_score = 600000
  /\ result.level = "high"

DimensionOrder == <<"lexical", "syntactic", "structural", "semantic">>

\* C15: the dimension reported as the main issue has the maximum dimension
\* score, and when several dimensions share the maximum, the first of them in
\* the order lexical, syntactic, structural, semantic is reported.
C15_MainIssueIsFirstMaximum ==
  (op = "_generate_summary" /\ pc = "done") =>
    \E i \in DOMAIN DimensionOrder :
      /\ result.main_issue = <<DimensionOrder[i], args[DimensionOrder[i]].score>>
      /\ \A j \in DOMAIN DimensionOrder :
           args[DimensionOrder[j]].score <= args[DimensionOrder[i]].score
      /\ \A j \in 1..(i - 1) :
           args[DimensionOrder[j]].score < args[DimensionOrder[i]].score

\* syntactic and semantic share the maximum, and syntactic is reported
C15_Witness ==
  /\ op = "_generate_summary"
  /\ pc = "done"
  /\ args.syntactic.score = args.semantic.score
  /\ args.lexical.score < args.syntactic.score
  /\ args.structural.score < args.syntactic.score
  /\ result.main_issue[1] = "syntactic"

-----------------------------------------------------------------------------
(* Properties of the intensity tiers, stated for SpecHumanize.             *)

\* is a a subsequence of b (the members of a occur in b in the same order)
RECURSIVE IsSubsequence(_, _)
IsSubsequence(a, b) ==
  IF a = <<>> THEN TRUE
  ELSE IF b = <<>> THEN FALSE
  ELSE IF Head(a) = Head(b) THEN IsSubsequence(Tail(a), Tail(b))
  ELSE IsSubsequence(a, Tail(b))

\* the words the light tier replaces in a text: those of the first 20
\* high-frequency and first 10 formal words that occur in it and have a
\* replacement
LightWordsIn(t) ==
  {w \in SeqToSet(Prefix(AI_HIGH_FREQ_WORDS, 20)) \cup SeqToSet(Prefix(AI_FORMAL_WORDS, 10)) :
     /\ Contains(t, w)
     /\ w \in DOMAIN WORD_REPLACEMENTS
     /\ Len(WORD_REPLACEMENTS[w]) > 0}

MediumStageNames == <<"_replace_words", "_adjust_syntax", "_add_colloquial_expressions">>

HeavyStageNames ==
  <<"_replace_words", "_adjust_syntax", "_add_personal_expressions", "_add_emotions",
    "_add_uncertainty", "_add_colloquial_expressions">>

\* C16, as stated: each tier's pipeline is a superset of the previous tier's:
\* every transformation light applies (a replacement of each of its words
\* that occurs in the text) is also applied by medium and by heavy, and heavy
\* runs every stage medium runs, in the same relative order.
C16_EachTierExtendsThePrevious ==
  (pc = "done" /\ ~IsBlank(text) /\ intensity \in {"medium", "heavy"}) =>
    /\ \A w \in LightWordsIn(text) :
         \E k \in DOMAIN result.changes :
           Len(result.changes[k]) >= 2 /\ result.changes[k][2] = w
    /\ intensity = "heavy" => IsSubsequence(MediumStageNames, ran)

\* C16, amended: heavy runs every stage medium runs, in the same relative
\* order (word substitution, syntax adjustment, colloquial particles, with
\* three more stages before the last); light runs its own single pass, which
\* neither medium nor heavy runs.
C16_HeavyExtendsMedium ==
  (pc = "done" /\ ~IsBlank(text) /\ intensity \in ValidIntensities) =>
    /\ intensity = "light" => ran = <<"_light_humanize">>
    /\ intensity = "medium" => ran = MediumStageNames
    /\ intensity = "heavy" => ran = HeavyStageNames /\ IsSubsequence(MediumStageNames, ran)

\* a heavy run has finished with changes made
C16_Witness ==
  /\ pc = "done"
  /\ intensity = "heavy"
  /\ Len(ran) = 6
  /\ result.change_count > 0

\* the positions at which w occurs in s
OccurrencesOf(s, w) ==
  {p \in 1..(Len(s) - Len(w) + 1) : SubSeq(s, p, p + Len(w) - 1) = w}

\* the texts that differ from s by one occurrence of w rewritten to n
OneOccurrenceReplaced(s, w, n) ==
  {SubSeq(s, 1, p - 1) \o n \o SubSeq(s, p + Len(w), Len(s)) : p \in OccurrencesOf(s, w)}

\* the texts reached from those of S by the replacements cs, one occurrence each
RECURSIVE AfterChanges(_, _)
AfterChanges(S, cs) ==
  IF cs = <<>> THEN S
  ELSE AfterChanges(UNION {OneOccurrenceReplaced(s, cs[1][2], cs[1][3]) : s \in S}, Tail(cs))

NoStructuralSignal(t) ==
  LET paragraphs == StripNonEmpty(Split(t, {"LF"}))
      total == Sum([i \in DOMAIN paragraphs |-> Len(paragraphs[i])])
  IN /\ Len(check_pattern(t, "opening")) = 0
     /\ Len(check_pattern(t, "closing")) = 0
     /\ \A i \in DOMAIN list_indicators : ~Contains(t, list_indicators[i])
     /\ IF Len(paragraphs) > 0 THEN total <= 100 * Len(paragraphs) ELSE Len(t) <= 100

\* the result r of detect(t) is one of a text without structural signal whose
\* syntactic score is below 40
LooksNatural(t, r) ==
  /\ DOMAIN r.details = Dimensions
  /\ NoStructuralSignal(t)
  /\ r.details["syntactic"].score < 4000

\* C18, as stated: a text with no opening or closing pattern match, no list
\* indicator word, an average paragraph length of at most 100 and a syntactic
\* score below 40 has a returned score below 60 and is_ai false, whatever its
\* lexical and semantic scores are.
C18_NaturalTextScoresBelow60 ==
  (pc = "done" /\ LooksNatural(text, result)) =>
    /\ result.score < 6000
    /\ result.is_ai = FALSE

\* C18, amended: for such a text the structural score is 0, the unrounded
\* total (= 100 * confidence) is below 60 and is_ai is false; the returned
\* score is at most 60.00, and it is 60.00 only when the unrounded total is at
\* least 59.995.
C18_NaturalTextTotalBelow60 ==
  (pc = "done" /\ LooksNatural(text, result)) =>
    /\ result.details["structural"].score = 0
    /\ result.confidence < 600000
    /\ result.is_ai = FALSE
    /\ result.score <= 6000
    /\ result.score = 6000 => result.confidence >= 599950

\* a natural-looking text with lexical and semantic scores of 100, whose total
\* of 59.9975 is returned as the score 60.00
C18_Witness ==
  /\ pc = "done"
  /\ LooksNatural(text, result)
  /\ result.details["lexical"].score = 10000
  /\ result.details["semantic"].score = 10000
  /\ result.score = 6000
  /\ result.is_ai = FALSE

\* ---------------------------------------------------------------------------
\* Properties of repeated detection, stated for SpecRepeat.

OwnProgress(c) ==
  \E o \in RunStages(c.done, c.text) : o.text = c.work /\ o.changes = c.changes

\* C20: when detect and humanize invocations on different texts are
\* interleaved, the rule tables stay as initialised, the working text and
\* change log of every invocation come from its own text only, and every
\* result is one the invocation can return when it runs alone.
C20_InvocationsAreIsolated ==
  /\ shared = RuleData
  /\ \A i \in DOMAIN calls :
       LET c == calls[i]
       IN /\ (c.pc = "stage") => OwnProgress(c)
          /\ (c.pc = "done" /\ c.op = "detect") => c.result = detect(c.text)
          /\ (c.pc = "done" /\ c.op = "humanize") => c.result \in humanize(c.text, c.intensity)

\* two humanize invocations on different texts, both between two stages,
\* both with their working text changed and a change logged
C20_Witness ==
  /\ Len(calls) = 2
  /\ \A i \in DOMAIN calls :
       /\ calls[i].op = "humanize"
       /\ calls[i].pc = "stage"
       /\ calls[i].done # <<>>
       /\ calls[i].todo # <<>>
       /\ calls[i].work # calls[i].text
       /\ calls[i].changes # <<>>
  /\ calls[1].text # calls[2].text

\* ---------------------------------------------------------------------------
\* Properties of the structural and semantic analyses, stated for SpecDetect.

\* the number of occurrences in t of the list indicator words, all together
IndicatorOccurrences(t) ==
  Sum([i \in DOMAIN list_indicators |-> Cardinality(OccurrencesOf(t, list_indicators[i]))])

\* the list indicator words that occur in t
IndicatorsPresent(t) ==
  {i \in DOMAIN list_indicators : OccurrencesOf(t, list_indicators[i]) # {}}

\* the structural score (in hundredths) that the formula gives for a count
\* for the text t: d holds the opening and closing flags
StructuralScoreFor(t, d, count) ==
  LET paragraphs == StripNonEmpty(Split(t, {"LF"}))
      total == Sum([i \in DOMAIN paragraphs |-> Len(paragraphs[i])])
  IN 100 * Min(100, (IF d.has_opening_pattern THEN 30 ELSE 0)
                      + (IF d.has_closing_pattern THEN 30 ELSE 0)
                      + 8 * count
                      + (IF total > 100 * Len(paragraphs) THEN 20 ELSE 0))

\* C21, as stated: the list-indicator count of the structural dimension is
\* the number of occurrences, anywhere in the text, of the six indicator
\* words, and each counted occurrence adds 8 points to the structural score
\* before the clamp to 100.
C21_CountsEveryOccurrence ==
  (pc = "done" /\ ~IsBlank(text)) =>
    LET d == result.details.structural.details
    IN /\ d.list_structure_count = IndicatorOccurrences(text)
       /\ result.details.structural.score = StructuralScoreFor(text, d, IndicatorOccurrences(text))

\* C21, amended: the list-indicator count is the number of the six indicator
\* words that occur in the text at least once (at most 6), however often each
\* occurs, and each such word adds 8 points to the structural score before
\* the clamp to 100.
C21_CountsIndicatorsPresent ==
  (pc = "done" /\ ~IsBlank(text)) =>
    LET d == result.details.structural.details
    IN /\ d.list_structure_count = Cardinality(IndicatorsPresent(text))
       /\ d.list_structure_count <= 6
       /\ result.details.structural.score
            = StructuralScoreFor(text, d, Cardinality(IndicatorsPresent(text)))

\* detect has returned for a text in which one indicator word occurs twice:
\* the count is 1 and the structural score has 8 points for it
C21_Witness ==
  /\ pc = "done"
  /\ ~IsBlank(text)
  /\ IndicatorOccurrences(text) >= 2
  /\ Cardinality(IndicatorsPresent(text)) = 1
  /\ result.details.structural.details.list_structure_count = 1
  /\ result.details.structural.score = 800

\* the semantic formula for the text t as a fraction: the three counts over
\* the tokens of t, and min(100, 5 q + max(0, 50 - 10 e%) + max(0, 30 - 10 f%))
SemanticFormula(t) ==
  LET words == jieba_cut(t)
      n == Len(words)
      q == Cardinality({i \in DOMAIN words : InList(words[i], AI_QUALIFIERS)})
      e == Sum([g \in DOMAIN EMOTION_WORDS |->
                 Cardinality({i \in DOMAIN words : InList(words[i], EMOTION_WORDS[g])})])
      f == Cardinality({i \in DOMAIN words : InList(words[i], FIRST_PERSON_EXPRESSIONS)})
      emotion_term == IF 50 * n - 1000 * e > 0 THEN 50 * n - 1000 * e ELSE 0
      first_person_term == IF 30 * n - 1000 * f > 0 THEN 30 * n - 1000 * f ELSE 0
      sum == 5 * q * n + emotion_term + first_person_term
  IN [q |-> q, e |-> e, f |-> f,
      value |-> Frac(IF sum > 100 * n THEN 100 * n ELSE sum, n)]

\* C28, as stated: the semantic score equals
\* min(100, 5 qualifierCount + max(0, 50 - 10 emotionPct) + max(0, 30 - 10 firstPersonPct));
\* the two subtracted terms never contribute a negative amount, and a text
\* with a token but no qualifier, emotion or first-person token scores 80.
C28_SemanticScoreIsFormula ==
  (pc = "done" /\ ~IsBlank(text)) =>
    LET m == SemanticFormula(text)
        score == result.details.semantic.score
    IN /\ score * m.value.d = 100 * m.value.n
       /\ score >= Min(10000, 500 * m.q)
       /\ (m.q = 0 /\ m.e = 0 /\ m.f = 0) => score = 8000

\* C28, amended: the semantic score is that value rounded to two decimals;
\* the rest as stated.
C28_SemanticScoreIsRoundedFormula ==
  (pc = "done" /\ ~IsBlank(text)) =>
    LET m == SemanticFormula(text)
        score == result.details.semantic.score
    IN /\ score = Round2(m.value)
       /\ score >= Min(10000, 500 * m.q)
       /\ (m.q = 0 /\ m.e = 0 /\ m.f = 0) => score = 8000

\* detect has returned for a text with an emotion token and a first-person
\* token whose two terms are positive and not multiples of 0.01: the
\* semantic score is 22.86 for the value 160/7
C28_Witness ==
  /\ pc = "done"
  /\ ~IsBlank(text)
  /\ SemanticFormula(text).e > 0
  /\ SemanticFormula(text).f > 0
  /\ SemanticFormula(text).value = Frac(800, 35)
  /\ result.details.semantic.score = 2286

\* ---------------------------------------------------------------------------
\* Properties of the result of humanize, stated for SpecHumanize.

\* C29, as stated: in every result humanize returns, original_length is the
\* number of characters of the input text and modified_length the number of
\* characters of the returned text.
C29_LengthsAreTextLengths ==
  pc = "done" =>
    /\ result.original_length = Len(text)
    /\ result.modified_length = Len(result.text)

\* humanize has returned for a text of whitespace only: the text comes back
\* as it is, with both lengths 0
C29_BlankLengthsZero ==
  /\ pc = "done"
  /\ Len(text) > 0
  /\ result.text = text
  /\ result.original_length = 0
  /\ result.modified_length = 0

\* C30: whenever humanize returns a result with change_count 0 the returned
\* text is the input text, and every stage of every tier that alters the
\* working text appends at least one entry to the change log for it.
C30_NoChangeWithoutEntry ==
  /\ [](pc = "done" => (result.change_count = 0 => result.text = text))
  /\ [][(pc = "stage" /\ work' # work) => Len(changes') > Len(changes)]_vars

\* a heavy run on a text with a replaceable word has gone through its six
\* stages, drawing random numbers, and returned the input with no change
C30_Witness ==
  /\ pc = "done"
  /\ intensity = "heavy"
  /\ ran = HeavyStageNames
  /\ rngDraws > 0
  /\ LightWordsIn(text) # {}
  /\ result.change_count = 0
  /\ result.text = text

\* ---------------------------------------------------------------------------
\* Properties of the stages of humanize, stated for SpecHumanize.

\* the word substitution pass of a medium or heavy run has just returned:
\* work and changes are what it returned for the input text
AfterWordSubstitution ==
  pc = "stage" /\ ran = <<"_replace_words">>

\* the k-th occurrence of w in s, from the left, rewritten to n
KthOccurrenceReplaced(s, w, n, k) ==
  LET p == CHOOSE a \in OccurrencesOf(s, w) :
             Cardinality({b \in OccurrencesOf(s, w) : b <= a}) = k
  IN SubSeq(s, 1, p - 1) \o n \o SubSeq(s, p + Len(w), Len(s))

\* s after the replacements cs, each made at the leftmost occurrence left
RECURSIVE AfterLeftmostChanges(_, _)
AfterLeftmostChanges(s, cs) ==
  IF cs = <<>> THEN s
  ELSE AfterLeftmostChanges(
         IF OccurrencesOf(s, cs[1][2]) = {} THEN s
         ELSE KthOccurrenceReplaced(s, cs[1][2], cs[1][3], 1),
         Tail(cs))

\* the words with a replacement that occur exactly three times in t
WordsThreeTimes(t) ==
  {w \in DOMAIN WORD_REPLACEMENTS :
     Len(WORD_REPLACEMENTS[w]) > 0 /\ Cardinality(OccurrencesOf(t, w)) = 3}

\* the texts that are t with only the second of three occurrences of w replaced
SecondOnlyReplaced(t, w) ==
  {KthOccurrenceReplaced(t, w, WORD_REPLACEMENTS[w][c], 2) : c \in DOMAIN WORD_REPLACEMENTS[w]}

\* C22, as stated: in the word substitution pass a word that appears 3 times
\* in the text may have its 2nd occurrence replaced while the 1st and the 3rd
\* survive, depending on which tokens pass the random draw: the pass has such
\* an outcome for a text with such a word.
C22_SecondOccurrenceMayBeReplacedAlone ==
  (pc = "call" /\ intensity \in {"medium", "heavy"}) =>
    \A w \in WordsThreeTimes(text) :
      \E o \in _replace_words(text, StagesOf(intensity)[1].ratio) :
        o.text \in SecondOnlyReplaced(text, w)

\* C22, amended: every replacement of the pass is made at the leftmost
\* occurrence the word still has, whichever token passed the draw; the pass
\* returns the text with one such replacement per change entry, so of three
\* occurrences the 2nd is never replaced while the 1st survives.
C22_LeftmostOccurrenceIsReplaced ==
  AfterWordSubstitution =>
    /\ work = AfterLeftmostChanges(text, changes)
    /\ \A w \in WordsThreeTimes(text) : work \notin SecondOnlyReplaced(text, w)

\* the pass has returned for a text with three occurrences of a word after
\* one of the three tokens passed the draw: the 1st occurrence is replaced,
\* the 2nd and the 3rd are as they were
C22_Witness ==
  /\ AfterWordSubstitution
  /\ Len(changes) = 1
  /\ changes[1][2] \in WordsThreeTimes(text)
  /\ work = KthOccurrenceReplaced(text, changes[1][2], changes[1][3], 1)
  /\ Cardinality(OccurrencesOf(work, changes[1][2])) = 2

\* the entry step 1 of the syntax adjustment pass records
BreakEntry == <<"syntax: break shouxian-qici">>

\* the step of humanize that is about to be taken runs the stage f
Running(f) ==
  pc = "stage" /\ todo # <<>> /\ Head(todo).f = f

\* C23: step 1 of the syntax adjustment pass replaces the first occurrence of
\* 首先 and the first occurrence of 其次 and records exactly one change entry
\* when both literals occur in the text; when either is absent neither is
\* replaced and the step records no entry.  (Where the other two steps of
\* the pass record nothing, the text the pass returns is the text after
\* step 1.)
C23_BreakStepActsIffBothOccur ==
  [][(Running("_adjust_syntax") /\ ran' # ran) =>
       LET new == SubSeq(changes', Len(changes) + 1, Len(changes'))
           breaks == {k \in DOMAIN new : new[k] = BreakEntry}
           others == {k \in DOMAIN new : new[k] # BreakEntry}
           both == OccurrencesOf(work, w_shouxian) # {} /\ OccurrencesOf(work, w_qici) # {}
       IN IF both
          THEN /\ breaks = {1}
               /\ others = {} =>
                    work' = KthOccurrenceReplaced(
                              KthOccurrenceReplaced(work, w_shouxian, w_xianshuo, 1),
                              w_qici, w_zaishuo, 1)
          ELSE /\ breaks = {}
               /\ others = {} => work' = work]_vars

\* the syntax adjustment pass has returned for a text with 首先 twice and 其次
\* once: one entry, the first 首先 and the 其次 replaced, the second 首先 kept
C23_Witness ==
  /\ pc = "stage"
  /\ ran = <<"_replace_words", "_adjust_syntax">>
  /\ Cardinality(OccurrencesOf(text, w_shouxian)) = 2
  /\ Cardinality(OccurrencesOf(text, w_qici)) = 1
  /\ changes = <<BreakEntry>>
  /\ work = KthOccurrenceReplaced(KthOccurrenceReplaced(text, w_shouxian, w_xianshuo, 1),
                                  w_qici, w_zaishuo, 1)
  /\ Cardinality(OccurrencesOf(work, w_shouxian)) = 1

\* ---------------------------------------------------------------------------
\* Step 3 of the syntax adjustment pass

SplitEntry == <<"syntax: split long sentence">>
\* the marks re.split(r'([。！？])', text) splits at
StopMarks == {"fw.", "fw!", "fw?"}

\* the sentence unit of position p: the characters after the previous
\* terminator up to and including the next one (or the end of the text)
UnitStart(t, p) ==
  LET before == {q \in 1..(p - 1) : t[q] \in StopMarks}
  IN IF before = {} THEN 1 ELSE 1 + CHOOSE q \in before : \A r \in before : r <= q
UnitEnd(t, p) ==
  LET after == {q \in p..Len(t) : t[q] \in StopMarks}
  IN IF after = {} THEN Len(t) ELSE CHOOSE q \in after : \A r \in after : q <= r

\* the middle comma of every unit longer than 50 characters: of its m commas,
\* the one before comma-delimited part number (m + 1) div 2 + 1
MiddleCommas(t) ==
  {p \in DOMAIN t :
     /\ t[p] = "fw,"
     /\ LET a == UnitStart(t, p)
            b == UnitEnd(t, p)
            commas == {q \in a..b : t[q] = "fw,"}
        IN /\ b - a + 1 > 50
           /\ Cardinality({q \in commas : q <= p}) = (Cardinality(commas) + 1) \div 2}

\* the entries the stage that has just run appended
NewEntries == SubSeq(changes', Len(changes) + 1, Len(changes'))

\* C24: step 3 of the syntax adjustment pass splits every sentence unit longer
\* than 50 characters (terminator counted) that contains a comma exactly once,
\* at its middle comma: that comma becomes a full stop, every other character
\* of the text is unchanged, one entry is recorded per unit split, the halves
\* are not split again, and units of at most 50 characters or without a comma
\* are left as they are.  (Stated for the passes in which steps 1 and 2 record
\* nothing, so that step 3 works on the text the pass was given.)
C24_LongUnitsSplitOnceAtMiddleComma ==
  [][(/\ Running("_adjust_syntax")
      /\ ran' # ran
      /\ \A k \in DOMAIN NewEntries : NewEntries[k] = SplitEntry) =>
       /\ Len(NewEntries) = Cardinality(MiddleCommas(work))
       /\ work' = [p \in DOMAIN work |->
                     IF p \in MiddleCommas(work) THEN "fw." ELSE work[p]]]_vars

\* the syntax adjustment pass has returned for a one-unit text of 56
\* characters with three commas: one entry, the second comma became a full
\* stop, and the second half, 52 characters with a comma, was not split again
C24_Witness ==
  /\ pc = "stage"
  /\ ran = <<"_replace_words", "_adjust_syntax">>
  /\ Len(text) = 56
  /\ Cardinality({p \in DOMAIN text : text[p] = "fw,"}) = 3
  /\ changes = <<SplitEntry>>
  /\ MiddleCommas(text) = {4}
  /\ work = [text EXCEPT ![4] = "fw."]
  /\ UnitEnd(work, 5) - UnitStart(work, 5) + 1 = 52
  /\ MiddleCommas(work) = {30}

\* ---------------------------------------------------------------------------
\* Colloquial insertion

\* the position of the k-th stop mark of t
StopAt(t, k) ==
  CHOOSE p \in DOMAIN t :
    t[p] \in StopMarks /\ Cardinality({q \in 1..p : t[q] \in StopMarks}) = k

\* the sentence units of t in order: the characters before each stop mark with
\* that mark, and last the characters after the last mark, which have none
UnitsOf(t) ==
  LET n == Cardinality({p \in DOMAIN t : t[p] \in StopMarks})
  IN [k \in 1..(n + 1) |->
        LET a == IF k = 1 THEN 1 ELSE StopAt(t, k - 1) + 1
        IN IF k <= n
           THEN [body |-> SubSeq(t, a, StopAt(t, k) - 1), mark |-> t[StopAt(t, k)]]
           ELSE [body |-> SubSeq(t, a, Len(t)), mark |-> "none"]]

\* the units of the new working text that differ from the unit at the same
\* place of the old one
ChangedUnits == {k \in DOMAIN UnitsOf(work) : UnitsOf(work')[k] # UnitsOf(work)[k]}

\* C25: colloquial insertion with parameter count (2 in medium, 5 in heavy)
\* appends at most count particles in one pass, at most one to any sentence
\* unit, only to units whose text before the terminator is longer than 5
\* characters and whose terminator is 。 or ！, and puts the particle
\* immediately before the terminator; it records one entry per particle and
\* changes nothing else.
C25_ColloquialInsertionIsBounded ==
  [][(Running("_add_colloquial_expressions") /\ ran' # ran) =>
       /\ Head(todo).count = (IF intensity = "medium" THEN 2 ELSE 5)
       /\ Len(NewEntries) <= Head(todo).count
       /\ Len(UnitsOf(work')) = Len(UnitsOf(work))
       /\ Cardinality(ChangedUnits) = Len(NewEntries)
       /\ \A k \in ChangedUnits :
            LET old == UnitsOf(work)[k]
                new == UnitsOf(work')[k]
            IN /\ Len(old.body) > 5
               /\ old.mark \in {"fw.", "fw!"}
               /\ new.mark = old.mark
               /\ \E c \in DOMAIN COLLOQUIAL_MARKERS :
                    /\ c <= 5
                    /\ new.body = old.body \o COLLOQUIAL_MARKERS[c]
                    /\ \E e \in DOMAIN NewEntries :
                         NewEntries[e] = <<"colloquial", COLLOQUIAL_MARKERS[c]>>
       /\ \A e \in DOMAIN NewEntries : NewEntries[e][1] = "colloquial"]_vars

\* a heavy run over six eligible units has finished its colloquial insertion:
\* five particles were appended, to five different units, and one unit is as
\* it was
C25_Witness ==
  /\ pc = "stage"
  /\ intensity = "heavy"
  /\ ran = HeavyStageNames
  /\ text = SixUnitsText
  /\ Len(changes) = 5
  /\ \A e \in DOMAIN changes : changes[e][1] = "colloquial"
  /\ Cardinality({k \in 1..6 : UnitsOf(work)[k] # UnitsOf(text)[k]}) = 5
  /\ \A k \in 1..6 : Len(UnitsOf(work)[k].body) \in {6, 7}

\* ---------------------------------------------------------------------------
\* Emotion-marker insertion

\* the units of t whose text before the terminator is not blank
NonBlankUnits(t) == {k \in DOMAIN UnitsOf(t) : ~IsBlank(UnitsOf(t)[k].body)}

\* C26: emotion-marker insertion leaves the text unchanged and records no
\* change unless the text has at least 3 non-empty sentence units; when it
\* triggers it prepends an intensifier (真的, 确实 or 挺) to at most 2 units,
\* each of them a non-empty unit terminated by the plain full stop 。, records
\* one entry per intensifier and changes nothing else.
C26_EmotionsNeedThreeUnits ==
  [][(Running("_add_emotions") /\ ran' # ran) =>
       /\ Cardinality(NonBlankUnits(work)) < 3 => (work' = work /\ changes' = changes)
       /\ Len(NewEntries) <= 2
       /\ Len(UnitsOf(work')) = Len(UnitsOf(work))
       /\ Cardinality(ChangedUnits) = Len(NewEntries)
       /\ \A k \in ChangedUnits :
            LET old == UnitsOf(work)[k]
                new == UnitsOf(work')[k]
            IN /\ k \in NonBlankUnits(work)
               /\ old.mark = "fw."
               /\ new.mark = "fw."
               /\ \E w \in {<<"zhen", "de">>, <<"que", "shi2">>, <<"ting">>} :
                    /\ new.body = w \o old.body
                    /\ \E e \in DOMAIN NewEntries : NewEntries[e] = <<"emotion", w>>
       /\ \A e \in DOMAIN NewEntries : NewEntries[e][1] = "emotion"]_vars

\* a heavy run over three units, two ending in 。 and one in ！, has finished
\* its emotion pass: both 。 units got an intensifier, the ！ unit did not
C26_Witness ==
  /\ pc = "stage"
  /\ ran = <<"_replace_words", "_adjust_syntax", "_add_personal_expressions", "_add_emotions">>
  /\ Cardinality(NonBlankUnits(text)) = 3
  /\ {UnitsOf(text)[k].mark : k \in 1..3} = {"fw.", "fw!"}
  /\ Len(changes) = 2
  /\ \A e \in DOMAIN changes : changes[e][1] = "emotion"
  /\ \A k \in 1..3 :
       IF UnitsOf(text)[k].mark = "fw."
       THEN /\ Len(UnitsOf(work)[k].body) > Len(UnitsOf(text)[k].body)
            /\ UnitsOf(work)[k].mark = "fw."
       ELSE UnitsOf(work)[k] = UnitsOf(text)[k]

\* ---------------------------------------------------------------------------
\* Order of the change log

\* the place in the pipeline of the stage that writes an entry of this kind
\* (0: the light tier, which is a single pass)
EntryRank(entry) ==
  CASE entry[1] = "replace" -> 0
    [] entry[1] = "word substitution" -> 1
    [] entry[1] \in {"syntax: break shouxian-qici", "syntax simplify",
                     "syntax: split long sentence"} -> 2
    [] entry[1] = "first person" -> 3
    [] entry[1] = "emotion" -> 4
    [] entry[1] = "uncertainty" -> 5
    [] entry[1] = "colloquial" -> 6

RanksOf(cs) == {EntryRank(cs[k]) : k \in DOMAIN cs}

\* C27: within one humanize call the change-log entries appear in pipeline
\* stage order: word substitution, then syntax adjustment, personal voice,
\* emotion markers, certainty softening, and colloquial insertion last; a
\* medium call runs, and logs, only word substitution, syntax adjustment and
\* colloquial insertion (a blank text returns before any stage).  No stage's
\* effect on the working text depends on the change log: the entries of a
\* stage are added after those already there, which stay as they are, and
\* what the stage returns is one of its outcomes for the working text alone
\* (the last is checked for working texts of up to five non-blank units).
C27_ChangeLogInStageOrder ==
  /\ [](\A i, j \in DOMAIN changes : i < j => EntryRank(changes[i]) <= EntryRank(changes[j]))
  /\ [](pc = "done" /\ ~IsBlank(text) /\ result.intensity = "medium" =>
          /\ ran = <<"_replace_words", "_adjust_syntax", "_add_colloquial_expressions">>
          /\ RanksOf(result.changes) \subseteq {1, 2, 6})
  /\ [](pc = "done" /\ ~IsBlank(text) /\ result.intensity = "heavy" =>
          /\ ran = <<"_replace_words", "_adjust_syntax", "_add_personal_expressions",
                     "_add_emotions", "_add_uncertainty", "_add_colloquial_expressions">>
          /\ RanksOf(result.changes) \subseteq 1..6)
  /\ [][(pc = "stage" /\ ran' # ran) =>
          /\ SubSeq(changes', 1, Len(changes)) = changes
          /\ Cardinality(NonBlankUnits(work)) <= 5 =>
               \E o \in StageOutcomes(Head(todo), work) :
                 work' = o.text /\ NewEntries = o.changes]_vars

\* a heavy call has returned a change log with entries of three stages
C27_Witness ==
  /\ pc = "done"
  /\ result.intensity = "heavy"
  /\ Cardinality(RanksOf(result.changes)) >= 3
  /\ result.changes = changes

====
